---- MODULE Spec2Model ----
(***************************************************************************)
(* A model of gymadvisorai's planner loops, of the conversation memory,   *)
(* of the baseline RAG stores and of the graph and comparison queries:     *)
(*   - core/agent.py       Agent.run   (route once, ACT, REFLECT, synth)   *)
(*   - core/agent_full.py  AgentFull.run (PLAN, ACT per step, synth)       *)
(*   - tools/memory.py     Memory.add / Memory.as_text                     *)
(*   - gymadvisorai/rag.py TfidfStore.build / load / retrieve,             *)
(*                         EmbeddingStore.retrieve, answer_with_rag        *)
(*   - tools/graph_rag.py  ingest_edges_to_json, _load_local_graph,        *)
(*                         _query_local, query                             *)
(*   - tools/rag_orchestrator.py  query                                    *)
(*                                                                         *)
(* Text is modelled as a sequence of pieces.  A language-model response is *)
(* a sequence over Tok together with the members its "F" piece stands for. *)
(* A user query is a sequence of word pieces; a letter followed by ' stands*)
(* for the accented Polish letter of the source's keyword lists.           *)
(***************************************************************************)
EXTENDS Integers, Sequences, FiniteSets, TLC

VARIABLES
    env_steps,          \* the AGENT_MAX_STEPS environment variable
    kind,               \* which agent object the session has constructed
    turns,              \* Memory.turns
    added,              \* history: every pair ever handed to Memory.add
    m_text,             \* what Memory.as_text returned last, and after how many adds
    a_pc,               \* Agent.run: position in the method
    a_max_steps,        \* Agent.max_steps
    a_query,            \* Agent.run: user_query
    a_forced,           \* Agent.run: forced_tool
    a_intent,           \* Agent.run: intent
    a_tool,             \* Agent.run: tool
    a_tool_input,       \* Agent.run: tool_input
    a_step,             \* Agent.run: step
    a_trace,            \* Agent.run: trace
    a_sources,          \* Agent.run: sources
    a_last_obs,         \* Agent.run: last_observation
    a_answer,           \* Agent.run: answer
    a_hist,             \* history of the current Agent.run
    f_pc,               \* AgentFull.run: position in the method
    f_arg,              \* AgentFull.__init__: the max_steps argument
    f_max_steps,        \* AgentFull.max_steps
    f_query,            \* AgentFull.run: user_query
    f_step,             \* AgentFull.run: step
    f_tool,             \* AgentFull.run: tool
    f_tool_input,       \* AgentFull.run: tool_input
    f_intent,           \* AgentFull.run: intent
    f_last_obs,         \* AgentFull.run: last_obs
    f_trace,            \* AgentFull.run: trace
    f_answer,           \* AgentFull.run: the returned answer
    f_hist,             \* history of the current AgentFull.run
    r_docs,             \* TF-IDF: the documents handed to build()
    r_query,            \* TF-IDF: the query handed to retrieve()
    r_k,                \* TF-IDF: the k handed to retrieve()
    r_store,            \* TfidfStore objects: docs, df, doc_vecs, norms
    r_file,             \* the snapshot file at TfidfStore.path
    r_builds,           \* history: the document lists built so far
    r_synced,           \* history: the fresh store holds the newest snapshot
    r_out,              \* per store, the outcome of retrieve() as things stand
    b_pc,               \* TfidfStore.build: position in the method
    b_docs,             \* TfidfStore.build: the docs argument
    g_files,            \* data/graph: graph.json and edges.csv
    g_query,            \* _query_local: query_text
    g_hops,             \* _query_local: max_hops
    g_pick,             \* which of several shortest paths networkx returns
    g_pc,               \* the local graph query: position
    g_graph,            \* the MultiDiGraph of _load_local_graph
    g_out,              \* the dict _query_local returned
    q_env,              \* GRAPH_RAG_MODE, NEO4J_URI, NEO4J_USER, NEO4J_PASSWORD
    q_broken,           \* graph.json cannot be read as a graph
    q_pc,               \* graph_rag.query: position in the function
    q_err,              \* graph_rag.query: the exception e of line 234
    q_log,              \* history: the engines contacted, and how that went
    q_out,              \* what graph_rag.query returned
    o_pc,               \* rag_orchestrator.query: position in the function
    o_args,             \* rag_orchestrator.query: run_vector, run_graph
    o_vector,           \* rag_orchestrator.query: vector_obs
    o_graph,            \* rag_orchestrator.query: graph_obs
    o_out,              \* what rag_orchestrator.query returned
    w_settings,         \* settings: llm_enabled, openai_embedding_model
    w_emb,              \* the snapshot file at EmbeddingStore.path
    w_args,             \* answer_with_rag: question, k
    w_pc,               \* answer_with_rag: position in the function
    w_retrieved,        \* answer_with_rag: retrieved
    w_used,             \* answer_with_rag: used
    w_log,              \* history: the stores asked, and what they returned
    w_out               \* what answer_with_rag returned

sessVars  == <<env_steps, kind>>
memVars   == <<turns, added, m_text>>
agentVars == <<a_pc, a_max_steps, a_query, a_forced, a_intent, a_tool,
               a_tool_input, a_step, a_trace, a_sources, a_last_obs,
               a_answer, a_hist>>
fullVars  == <<f_pc, f_arg, f_max_steps, f_query, f_step, f_tool,
               f_tool_input, f_intent, f_last_obs, f_trace, f_answer, f_hist>>
ragVars   == <<r_docs, r_query, r_k, r_store, r_file, r_builds, r_synced,
               r_out, b_pc, b_docs>>
loopVars  == <<sessVars, memVars, agentVars, fullVars>>
graphVars == <<g_files, g_query, g_hops, g_pick, g_pc, g_graph, g_out>>
queryVars == <<q_env, q_broken, q_pc, q_err, q_log, q_out>>
orchVars  == <<o_pc, o_args, o_vector, o_graph, o_out>>
answerVars == <<w_settings, w_emb, w_args, w_pc, w_retrieved, w_used, w_log,
                w_out>>
callVars  == <<queryVars, orchVars, answerVars>>
indexVars == <<ragVars, graphVars, callVars>>
vars      == <<loopVars, indexVars>>

----------------------------------------------------------------------------
(* Bounds of the model *)

\* AGENT_MAX_STEPS is unset or one of 0 .. MaxEnvSteps
MaxEnvSteps == 2
\* AgentFull is constructed with max_steps None or one of 0 .. MaxArgSteps
MaxArgSteps == 2
\* Memory.add calls in the memory specification
MaxAdds == 10
\* documents handed to TfidfStore.build
MaxDocs == 2
\* k of TfidfStore.retrieve is one of 0 .. MaxK
MaxK == 2
\* TfidfStore.build calls on one store
MaxBuilds == 2
\* max_hops of _query_local is one of 0 .. MaxHops
MaxHops == 3

(* Program constants *)

\* Agent.__init__: env_int("AGENT_MAX_STEPS", 3)
AgentDefaultSteps == 3
\* AgentFull.__init__: os.getenv("AGENT_MAX_STEPS", "4")
FullDefaultSteps == 4
\* Memory.add: self.turns[-8:]
MemoryKeep == 8
\* Memory.as_text: self.turns[-6:]
MemoryShow == 6

----------------------------------------------------------------------------
(* Python values *)

\* a key the JSON object does not have
Absent == "<absent>"
\* the JSON literals; every other string is a JSON string
JTrue  == "true"
JFalse == "false"
JNull  == "null"
None   == "<None>"
\* an optional integer (an environment variable that may be unset, an
\* argument that may be None): <<>> or <<n>>
NoInt == <<>>
\* a text that is None
NoText == <<"<None>">>

\* bool(v) for the values a field can hold
Truthy(v) == v \notin {JFalse, JNull, ""}

\* d.get(k): None when the key is missing
Get(d, k) == IF d[k] = Absent THEN JNull ELSE d[k]

\* d.get(k, default): the default only when the key is missing
GetDefault(d, k, default) == IF d[k] = Absent THEN default ELSE d[k]

\* Python's `a or b`
Or(a, b) == IF Truthy(a) THEN a ELSE b

\* s[-n:] of a list
LastN(s, n) == IF Len(s) <= n THEN s ELSE SubSeq(s, Len(s) - n + 1, Len(s))

----------------------------------------------------------------------------
(* tools/memory.py *)

MemoryAddDropsNewest(ts, user, assistant) ==
    LET appended == Append(ts, <<user, assistant>>)
    IN  IF Len(appended) <= MemoryKeep THEN appended
        ELSE SubSeq(appended, 1, MemoryKeep)

MemoryAddUnbounded(ts, user, assistant) == Append(ts, <<user, assistant>>)

\* Memory.add: append, then keep the last 8
MemoryAdd(ts, user, assistant) ==
    LastN(Append(ts, <<user, assistant>>), MemoryKeep)

\* an as_text that shows every stored turn
MemoryAsTextAll(ts) ==
    LET Lines[i \in 0..Len(ts)] ==
            IF i = 0 THEN <<>>
            ELSE Lines[i-1] \o << <<"User", ts[i][1]>>,
                                  <<"Assistant", ts[i][2]>> >>
    IN  Lines[Len(ts)]

\* Memory.as_text: the lines of the last 6 turns ("" when there are none)
MemoryAsText(ts) ==
    LET shown == LastN(ts, MemoryShow)
        Lines[i \in 0..Len(shown)] ==
            IF i = 0 THEN <<>>
            ELSE Lines[i-1] \o << <<"User", shown[i][1]>>,
                                  <<"Assistant", shown[i][2]>> >>
    IN  Lines[Len(shown)]

\* as_text has not been called
NoAsText == [at |-> -1, lines |-> <<>>]

\* the outcome of a call of as_text on turns ts, after n calls of add
AsTextCall(ts, n) == [at |-> n, lines |-> MemoryAsText(ts)]

----------------------------------------------------------------------------
(* Language-model responses and their parsing *)

\* pieces of a response text: braces, the members of an object ("F"), prose
\* ("p"), a JSON value that is no object and is falsy ("N0": null, 0, [])
\* or truthy ("N1": 42, [1], "ok")
Tok == {"{", "}", "F", "p", "N0", "N1"}

\* the response texts the language model is taken to produce
Texts ==
    { <<"{", "F", "}">>,                  \* a JSON object
      <<"p", "{", "F", "}", "p">>,        \* an object inside prose
      <<"{", "}">>,                       \* the empty object
      <<"p", "{", "}">>,                  \* the empty object after prose
      <<"p">>,                            \* prose, no brace
      <<>>,                               \* the empty text
      <<"}", "p", "{">>,                  \* braces in the wrong order
      <<"{", "F">>,                       \* a truncated object
      <<"{", "F", "}", "{", "F", "}">>,   \* two objects
      <<"N0">>,                           \* null
      <<"N1">>,                           \* a number
      <<"p", "N1">> }                     \* prose and a number

\* a Python value: a dict (with its members), or another value
PyDict(fields) == [type |-> "dict", fields |-> fields, truthy |-> TRUE]
PyEmptyDict(none) == [type |-> "dict", fields |-> none, truthy |-> FALSE]
PyOther(truthy) == [type |-> "other", fields |-> <<>>, truthy |-> truthy]
PyRaise == [type |-> "raise", fields |-> <<>>, truthy |-> FALSE]

\* json.loads(text): the value, or PyRaise when the text is no JSON.
\* `fields` are the members "F" stands for, `none` the record of no members.
JsonLoads(text, fields, none) ==
    CASE text = <<"{", "F", "}">> -> PyDict(fields)
      [] text = <<"{", "}">>      -> PyEmptyDict(none)
      [] text = <<"N0">>          -> PyOther(FALSE)
      [] text = <<"N1">>          -> PyOther(TRUE)
      [] OTHER                    -> PyRaise

\* text.find(c): the first index of c, or -1 (indices from 1 here, so 0)
Find(text, c) ==
    IF \E i \in 1..Len(text) : text[i] = c
    THEN CHOOSE i \in 1..Len(text) :
            text[i] = c /\ \A j \in 1..(i-1) : text[j] # c
    ELSE 0

\* text.rfind(c): the last index of c, or -1 (here 0)
RFind(text, c) ==
    IF \E i \in 1..Len(text) : text[i] = c
    THEN CHOOSE i \in 1..Len(text) :
            text[i] = c /\ \A j \in (i+1)..Len(text) : text[j] # c
    ELSE 0

\* the text from the first "{" to the last "}", or <<>> when there is none
BraceSlice(text) ==
    LET start == Find(text, "{")
        end   == RFind(text, "}")
    IN  IF start # 0 /\ end # 0 /\ end > start
        THEN SubSeq(text, start, end) ELSE <<>>

ParseJsonReturnsNone(text, fields, none) ==
    LET whole == JsonLoads(text, fields, none)
    IN  IF whole.type # "raise" THEN whole
        ELSE LET slice == BraceSlice(text)
                 inner == JsonLoads(slice, fields, none)
             IN  IF slice # <<>> /\ inner.type # "raise" THEN inner
                 ELSE PyOther(FALSE)

\* core/agent.py _parse_json: json.loads, then the first-"{"-to-last-"}"
\* slice, then {}
ParseJson(text, fields, none) ==
    LET whole == JsonLoads(text, fields, none)
    IN  IF whole.type # "raise" THEN whole
        ELSE LET slice == BraceSlice(text)
                 inner == JsonLoads(slice, fields, none)
             IN  IF slice # <<>> /\ inner.type # "raise" THEN inner
                 ELSE PyEmptyDict(none)

\* core/agent_full.py _safe_json_loads: json.loads, then the greedy regex
\* \{[\s\S]*\} (the first "{" to the last "}" after it), then None
SafeJsonLoads(text, fields, none) ==
    LET whole == JsonLoads(text, fields, none)
    IN  IF whole.type # "raise" THEN whole
        ELSE LET slice == BraceSlice(text)
                 inner == JsonLoads(slice, fields, none)
             IN  IF slice # <<>> /\ inner.type # "raise" THEN inner
                 ELSE PyOther(FALSE)

\* both json.loads attempts of the parsers raise
Unparsable(text, fields, none) ==
    /\ JsonLoads(text, fields, none).type = "raise"
    /\ JsonLoads(BraceSlice(text), fields, none).type = "raise"

\* the responses of one call site: a text, and the members of its object
\* when the text holds one
Responses(FieldSet, none) ==
    UNION { IF "F" \in {t[i] : i \in 1..Len(t)}
            THEN {[text |-> t, fields |-> f] : f \in FieldSet}
            ELSE {[text |-> t, fields |-> none]} : t \in Texts }

----------------------------------------------------------------------------
(* The user query and the keyword override of Agent.run *)

\* the user queries of the model, as sequences of word pieces
PlainQuery == <<"plan", " ", "na", " ", "mase">>
Queries ==
    { <<"plan", " ", "na", " ", "mase">>,          \* no keyword
      <<"SYMUL", "acja", " ", "planu">>,           \* what-if, upper case
      <<"ile", " ", "c'wicze", "n'">>,             \* counting
      <<"co", " ", "jes'li", " ", "policz", "e">>, \* both vocabularies
      <<" ", "plan", " ", "ile", " ">>,            \* "ile " only before strip()
      <<"Brak", " ", "sprze'tu", " ">> }           \* what-if, capitalised

\* str.lower() of one piece
LowerPiece(w) ==
    CASE w = "SYMUL" -> "symul"
      [] w = "Brak"  -> "brak"
      [] w = "Bench" -> "bench"
      [] w = "BENCH" -> "bench"
      [] w = "Press" -> "press"
      [] w = "Squat" -> "squat"
      [] w = "Ben"   -> "ben"
      [] w = "BEN"   -> "ben"
      [] w = "LEG"   -> "leg"
      [] w = "Chest" -> "chest"
      [] w = "Upper" -> "upper"
      [] w = "Body"  -> "body"
      [] w = "TARGETS" -> "targets"
      [] w = "NEO4J" -> "neo4j"
      [] OTHER       -> w

\* str.lower()
Lower(s) == [i \in 1..Len(s) |-> LowerPiece(s[i])]

\* str.strip(): leading and trailing blanks removed
RECURSIVE Strip(_)
Strip(s) ==
    IF s = <<>> THEN s
    ELSE IF Head(s) = " " THEN Strip(Tail(s))
    ELSE IF s[Len(s)] = " " THEN Strip(SubSeq(s, 1, Len(s) - 1))
    ELSE s

\* Python's `k in s` for strings: k is a contiguous part of s
Contains(s, k) ==
    \E i \in 0..(Len(s) - Len(k)) : SubSeq(s, i + 1, i + Len(k)) = k

\* the keywords of core/agent.py line 91
WhatIfKeys ==
    { <<"what-if">>, <<"co", " ", "jes'li">>, <<"co", " ", "sie", " ", "stanie">>,
      <<"co", " ", "sie'", " ", "stanie">>, <<"symul">>,
      <<"usun'", " ", "sprze't">>, <<"usun", " ", "sprzet">>,
      <<"brak", " ", "sprze'tu">>, <<"brak", " ", "sprzetu">> }

\* the keywords of core/agent.py line 93
CountKeys ==
    { <<"policz">>, <<"zlicz">>, <<"ile", " ">>, <<"ile", " ", "c'wicze">>,
      <<"ile", " ", "cwicze">>, <<"ile", " ", "jest">>, <<"suma">>,
      <<"s'rednia">>, <<"srednia">>, <<"agreg">>, <<"filtr">>, <<"posort">> }

\* ql = (user_query or "").strip().lower()
QueryLower(user_query) == Lower(Strip(user_query))

HasWhatIf(user_query) ==
    \E k \in WhatIfKeys : Contains(QueryLower(user_query), k)

HasCount(user_query) ==
    \E k \in CountKeys : Contains(QueryLower(user_query), k)

\* core/agent.py lines 90-96: the keyword override
ForcedTool(user_query) ==
    IF HasWhatIf(user_query) THEN "what_if"
    ELSE IF HasCount(user_query) THEN "analytics"
    ELSE None

\* the tool names Agent.run accepts (core/agent.py lines 110 and 186)
AgentTools ==
    {"matcher", "what_if", "analytics", "graph_build", "vector_rag",
     "graph_rag", "none"}

\* core/types.py ToolName
ToolName ==
    {"vector_rag", "graph_rag", "matcher", "analytics", "graph_build",
     "what_if", "none"}

CoerceToolKeeps(t) == t

\* core/agent.py lines 110-111 and 186: a tool outside the set becomes
\* vector_rag
CoerceTool(t) == IF t \in AgentTools THEN t ELSE "vector_rag"

\* core/agent.py lines 109-111: forced_tool or (route.get("tool") or
\* "vector_rag"), then coerced
RouteTool(forced_tool, route) ==
    CoerceTool(IF forced_tool # None THEN forced_tool
               ELSE Or(Get(route.fields, "tool"), "vector_rag"))

----------------------------------------------------------------------------
(* Tools, observations and the fields of the responses *)

\* a JSON string as text (a sequence of pieces)
TextOf(v) == IF v = "" THEN <<>> ELSE <<v>>

\* what the tool call of step `step` returns (every call is independent;
\* its output is named by the call)
ToolResult(step) == <<"output of call", step>>

\* the observation digest of a tool's output (the _summarize_* functions
\* and the json.dumps of core/agent.py lines 116-149)
Observation(tool, tool_input, result) ==
    [tool |-> tool, input |-> tool_input, result |-> result]

\* core/agent.py line 152
NoToolObservation ==
    [tool |-> "none", input |-> <<>>, result |-> <<"No tool used.", 0>>]

\* last_observation = "" (core/agent.py line 114, core/agent_full.py line 88)
EmptyObservation == [tool |-> "", input |-> <<>>, result |-> <<"", 0>>]

\* the entries of a matcher step the other way round
SourcesOfPlanFirst(tool, tool_input, result) ==
    CASE tool = "matcher" ->
            << [type |-> "plan_3day", items |-> <<"plan", tool_input, result>>],
               [type |-> "matcher", items |-> <<"match", tool_input, result>>] >>
      [] tool = "none" -> <<>>
      [] OTHER -> << [type |-> tool, items |-> <<tool, tool_input, result>>] >>

\* core/agent.py lines 116-149: the entries a step appends to `sources`
SourcesOf(tool, tool_input, result) ==
    CASE tool = "matcher" ->
            << [type |-> "matcher", items |-> <<"match", tool_input, result>>],
               [type |-> "plan_3day", items |-> <<"plan", tool_input, result>>] >>
      [] tool = "none" -> <<>>
      [] OTHER -> << [type |-> tool, items |-> <<tool, tool_input, result>>] >>

\* the members of a router response (prompts.TOOL_ROUTER)
RouterFields ==
    [intent : {"find exercises"},
     tool : {Absent, "graph_rag", "none", "unknown_tool"},
     tool_input : {"bench"}]
NoRouterFields == [intent |-> Absent, tool |-> Absent, tool_input |-> Absent]

\* the members of a reflection response (prompts.REFLECTION)
ReflectFields ==
    [sufficient : {Absent, JTrue, JFalse},
     reflection : {"need more"},
     next_tool : {Absent, "none", "matcher", "unknown_tool"},
     next_tool_input : {Absent, "squat"}]
NoReflectFields ==
    [sufficient |-> Absent, reflection |-> Absent, next_tool |-> Absent,
     next_tool_input |-> Absent]

\* the final answers the language model is taken to write
Answers == {"answer"}

----------------------------------------------------------------------------
(* core/agent.py Agent *)

\* core/utils.py env_int(name, default), for a variable that is unset or
\* holds a natural number
EnvInt(value, default) == IF value = NoInt THEN default ELSE value[1]

\* core/agent.py line 169: bool(refj.get("sufficient", True))
Sufficient(refj) == Truthy(GetDefault(refj.fields, "sufficient", JTrue))

\* core/agent.py line 170
Reflection(refj) ==
    LET r == Strip(TextOf(Or(Get(refj.fields, "reflection"), "")))
    IN  IF r # <<>> THEN r ELSE <<"OK.">>

\* core/agent.py line 171
NextTool(refj) == Or(Get(refj.fields, "next_tool"), "none")

\* a next_tool_input that is never taken over
NextToolInputDropped(refj) == <<>>

\* core/agent.py line 172
NextToolInput(refj) == Strip(TextOf(Or(Get(refj.fields, "next_tool_input"), "")))

BreaksOnlyWhenSufficient(sufficient, next_tool) == sufficient

\* core/agent.py line 183
Breaks(sufficient, next_tool) == sufficient \/ next_tool = "none"

LoopContinuesInclusive(step, max_steps) == step <= max_steps

\* the for loop `for step in range(1, max_steps + 1)`: after iteration
\* `step` (0 before the first) another iteration follows
LoopContinues(step, max_steps) == step < max_steps

\* history of a run of Agent.run: the ACT phases and language-model
\* calls so far, the observations handed to synthesis, what the router
\* response and the latest reflection response said, whether every
\* reflection so far said sufficient=false and named a next tool, Memory
\* at the start of the run, and the exception that ended the run
NoRef ==
    [step |-> 0, unparsable |-> FALSE, sufficient |-> Absent,
     next_tool |-> Absent, next_tool_input |-> Absent, stop |-> FALSE]
NoRoute == [unparsable |-> FALSE, type |-> "", tool |-> Absent]
EmptyHist ==
    [acts |-> 0, llm_calls |-> 0, route_calls |-> 0, synth |-> <<>>,
     insufficient |-> TRUE, route |-> NoRoute, ref |-> NoRef, mem0 |-> <<>>,
     error |-> ""]

\* Agent.__init__ (the session builds an Agent on the session's Memory)
AgentNew ==
    /\ UNCHANGED indexVars
    /\ kind = "none"
    /\ kind' = "agent"
    /\ a_max_steps' = EnvInt(env_steps, AgentDefaultSteps)
    /\ UNCHANGED <<env_steps, memVars, fullVars>>
    /\ UNCHANGED <<a_pc, a_query, a_forced, a_intent, a_tool, a_tool_input,
                   a_step, a_trace, a_sources, a_last_obs, a_answer, a_hist>>

\* Agent.run lines 86-104: the locals, the keyword override, and the router
\* prompt with Memory.as_text()
AgentStart(user_query) ==
    /\ UNCHANGED indexVars
    /\ kind = "agent"
    /\ a_pc = "idle"
    /\ a_pc' = "route"
    /\ a_query' = user_query
    /\ a_trace' = <<>>
    /\ a_sources' = <<>>
    /\ a_forced' = ForcedTool(user_query)
    /\ a_intent' = <<>>
    /\ a_tool' = ""
    /\ a_tool_input' = <<>>
    /\ a_step' = 0
    /\ a_last_obs' = EmptyObservation
    /\ a_answer' = None
    /\ a_hist' = [EmptyHist EXCEPT !.mem0 = turns]
    /\ m_text' = AsTextCall(turns, Len(added))
    /\ UNCHANGED <<env_steps, kind, turns, added, fullVars, a_max_steps>>

\* Agent.run lines 98-115: the routing call, its parsing, and the entry of
\* the loop.  A response that is JSON but no object makes route.get raise.
AgentRoute ==
    /\ UNCHANGED indexVars
    /\ a_pc = "route"
    /\ \E resp \in Responses(RouterFields, NoRouterFields) :
         LET route == ParseJson(resp.text, resp.fields, NoRouterFields)
         IN  /\ a_hist' = [a_hist EXCEPT !.llm_calls = @ + 1,
                                         !.route_calls = @ + 1,
                                         !.error =
                     IF route.type # "dict" THEN "AttributeError" ELSE "",
                                         !.route =
                     [unparsable |-> Unparsable(resp.text, resp.fields,
                                                NoRouterFields),
                      type |-> route.type,
                      tool |-> IF route.type = "dict" THEN route.fields.tool
                               ELSE Absent]]
             /\ IF route.type # "dict"
                THEN /\ a_pc' = "aborted"
                     /\ UNCHANGED <<a_intent, a_tool, a_tool_input, a_step,
                                    a_last_obs>>
                ELSE /\ a_intent' = Strip(TextOf(Or(Get(route.fields, "intent"),
                                                    "Answer the user request.")))
                     /\ a_tool' = RouteTool(a_forced, route)
                     /\ a_tool_input' =
                            LET ti == Get(route.fields, "tool_input")
                            IN  Strip(IF Truthy(ti) THEN TextOf(ti) ELSE a_query)
                     /\ a_last_obs' = EmptyObservation
                     /\ IF LoopContinues(0, a_max_steps)
                        THEN a_step' = 1 /\ a_pc' = "act"
                        ELSE a_step' = 0 /\ a_pc' = "synth"
    /\ UNCHANGED <<sessVars, memVars, fullVars>>
    /\ UNCHANGED <<a_max_steps, a_query, a_forced, a_trace, a_sources, a_answer>>

\* Agent.run lines 116-154: the ACT phase of one step
AgentAct ==
    /\ UNCHANGED indexVars
    /\ a_pc = "act"
    /\ LET result == ToolResult(a_step)
           observation ==
                IF a_tool = "none" THEN NoToolObservation
                ELSE Observation(a_tool, a_tool_input, result)
       IN  /\ a_sources' = a_sources \o SourcesOf(a_tool, a_tool_input, result)
           /\ a_last_obs' = observation
    /\ a_pc' = "reflect"
    /\ a_hist' = [a_hist EXCEPT !.acts = @ + 1]
    /\ UNCHANGED <<sessVars, memVars, fullVars>>
    /\ UNCHANGED <<a_max_steps, a_query, a_forced, a_intent, a_tool,
                   a_tool_input, a_step, a_trace, a_answer>>

\* Agent.run lines 156-187: the reflection call, the trace record, and the
\* break or the next iteration
AgentReflect ==
    /\ UNCHANGED indexVars
    /\ a_pc = "reflect"
    /\ \E resp \in Responses(ReflectFields, NoReflectFields) :
         LET refj == ParseJson(resp.text, resp.fields, NoReflectFields)
             sufficient == Sufficient(refj)
             next_tool == NextTool(refj)
             next_tool_input == NextToolInput(refj)
             stop == Breaks(sufficient, next_tool)
         IN  IF refj.type # "dict"
             THEN /\ a_pc' = "aborted"
                  /\ a_hist' = [a_hist EXCEPT
                        !.llm_calls = @ + 1,
                        !.error = "AttributeError",
                        !.insufficient = FALSE,
                        !.ref =
                            [step |-> a_step,
                             unparsable |-> Unparsable(resp.text, resp.fields,
                                                       NoReflectFields),
                             sufficient |-> Absent,
                             next_tool |-> Absent,
                             next_tool_input |-> Absent,
                             stop |-> FALSE]]
                  /\ UNCHANGED <<a_trace, a_tool, a_tool_input, a_step>>
             ELSE /\ a_trace' = Append(a_trace,
                        [step |-> a_step, intent |-> a_intent, tool |-> a_tool,
                         tool_input |-> a_tool_input,
                         observation |-> a_last_obs,
                         reflection |-> Reflection(refj)])
                  /\ a_hist' = [a_hist EXCEPT
                        !.llm_calls = @ + 1,
                        !.insufficient =
                            /\ @
                            /\ refj.fields.sufficient = JFalse
                            /\ refj.fields.next_tool \notin {Absent, "none"},
                        !.ref =
                            [step |-> a_step,
                             unparsable |-> Unparsable(resp.text, resp.fields,
                                                       NoReflectFields),
                             sufficient |-> refj.fields.sufficient,
                             next_tool |-> refj.fields.next_tool,
                             next_tool_input |-> refj.fields.next_tool_input,
                             stop |-> stop]]
                  /\ IF stop
                     THEN /\ a_pc' = "synth"
                          /\ UNCHANGED <<a_tool, a_tool_input, a_step>>
                     ELSE /\ a_tool' = CoerceTool(next_tool)
                          /\ a_tool_input' =
                                IF next_tool_input # <<>> THEN next_tool_input
                                ELSE a_tool_input
                          /\ IF LoopContinues(a_step, a_max_steps)
                             THEN a_step' = a_step + 1 /\ a_pc' = "act"
                             ELSE a_step' = a_step /\ a_pc' = "synth"
    /\ UNCHANGED <<sessVars, memVars, fullVars>>
    /\ UNCHANGED <<a_max_steps, a_query, a_forced, a_intent, a_sources,
                   a_last_obs, a_answer>>

\* Agent.run lines 189-209: final synthesis, Memory.add, return
AgentSynth ==
    /\ UNCHANGED indexVars
    /\ a_pc = "synth"
    /\ \E text \in Answers :
         /\ a_answer' = text
         /\ turns' = MemoryAdd(turns, a_query, text)
         /\ added' = Append(added, <<a_query, text>>)
    /\ UNCHANGED m_text
    /\ a_pc' = "done"
    /\ a_hist' = [a_hist EXCEPT !.llm_calls = @ + 1,
                                !.synth = Append(@, a_last_obs)]
    /\ UNCHANGED <<sessVars, fullVars>>
    /\ UNCHANGED <<a_max_steps, a_query, a_forced, a_intent, a_tool,
                   a_tool_input, a_step, a_trace, a_sources, a_last_obs>>

\* a language-model call of Agent.run raises (lines 105, 166, 206): the
\* exception leaves run()
AgentLlmRaises ==
    /\ UNCHANGED indexVars
    /\ a_pc \in {"route", "reflect", "synth"}
    /\ a_pc' = "aborted"
    /\ a_hist' = [a_hist EXCEPT !.error = "llm"]
    /\ UNCHANGED <<sessVars, memVars, fullVars>>
    /\ UNCHANGED <<a_max_steps, a_query, a_forced, a_intent, a_tool,
                   a_tool_input, a_step, a_trace, a_sources, a_last_obs,
                   a_answer>>

\* a tool of Agent.run raises (lines 117-147): the exception leaves run()
AgentToolRaises ==
    /\ UNCHANGED indexVars
    /\ a_pc = "act"
    /\ a_tool # "none"
    /\ a_pc' = "aborted"
    /\ a_hist' = [a_hist EXCEPT !.error = "tool"]
    /\ UNCHANGED <<sessVars, memVars, fullVars>>
    /\ UNCHANGED <<a_max_steps, a_query, a_forced, a_intent, a_tool,
                   a_tool_input, a_step, a_trace, a_sources, a_last_obs,
                   a_answer>>

----------------------------------------------------------------------------
(* core/agent_full.py AgentFull *)

\* the tools AgentFull._call_tool dispatches (lines 152-189)
FullTools == {"matcher", "analytics", "what_if", "vector_rag", "graph_rag"}

\* Python's str(v) of a JSON value
Str(v) ==
    CASE v = JNull  -> "None"
      [] v = JTrue  -> "True"
      [] v = JFalse -> "False"
      [] OTHER      -> v

\* the members of a planner response (tool_schema, lines 71-84); a
\* tool_input is an object, written here by its name
PlanFields ==
    [intent : {"find exercises"},
     tool : {Absent, "vector_rag", "none", "unknown_tool", JNull},
     tool_input : {"{query: bench}"},
     sufficient : {Absent, JTrue, JFalse},
     final_answer : {"final"}]
NoPlanFields ==
    [intent |-> Absent, tool |-> Absent, tool_input |-> Absent,
     sufficient |-> Absent, final_answer |-> Absent]

\* the texts the language model is taken to write at synthesis
FinalTexts == {<<"final text">>}

CallToolRaisesOnUnknown(tool, tool_input, user_query, result) ==
    IF tool \in FullTools
    THEN [error |-> "", tool |-> tool, tool_input |-> tool_input,
          query |-> user_query, result |-> result]
    ELSE [error |-> "raise", tool |-> tool, tool_input |-> tool_input,
          query |-> <<>>, result |-> <<"", 0>>]

\* AgentFull._call_tool (lines 151-191): the output of a known tool, or
\* the error observation of line 191
CallTool(tool, tool_input, user_query, result) ==
    IF tool \in FullTools
    THEN [error |-> "", tool |-> tool, tool_input |-> tool_input,
          query |-> user_query, result |-> result]
    ELSE [error |-> "Unknown tool", tool |-> tool, tool_input |-> tool_input,
          query |-> <<>>, result |-> <<"", 0>>]

\* AgentFull.__init__ line 55: max_steps or int(os.getenv("AGENT_MAX_STEPS", "4"))
FullMaxSteps(max_steps, env) ==
    IF max_steps # NoInt /\ max_steps[1] # 0 THEN max_steps[1]
    ELSE EnvInt(env, FullDefaultSteps)

PlanFailedNever(plan) == FALSE

\* core/agent_full.py line 110: `if not plan`
PlanFailed(plan) == ~plan.truthy

\* a loop that stops on tool "none" alone
PlanStopsOnNone(tool, sufficient) == tool = "none"

\* core/agent_full.py line 122
PlanStops(tool, sufficient) == tool = "none" \/ sufficient

EmptyFullTrace ==
    [steps |-> <<>>, planner_parse_error |-> FALSE, planner_raw |-> NoText,
     final_step |-> None, final_answer |-> None, stopped_reason |-> None]

\* history of a run of AgentFull.run: the ACT phases and language-model
\* calls so far, the observations handed to synthesis, what the latest
\* planner response said, and whether every planner response so far was
\* an object with sufficient=false and a tool other than "none"
NoPlan ==
    [step |-> 0, raw |-> NoText, unparsable |-> FALSE, type |-> "",
     truthy |-> FALSE, tool |-> Absent, sufficient |-> Absent]
EmptyFullHist ==
    [acts |-> 0, llm_calls |-> 0, synth |-> <<>>, insufficient |-> TRUE,
     plan |-> NoPlan, error |-> ""]

\* AgentFull.__init__
AgentFullNew(max_steps) ==
    /\ UNCHANGED indexVars
    /\ kind = "none"
    /\ kind' = "full"
    /\ f_arg' = max_steps
    /\ f_max_steps' = FullMaxSteps(max_steps, env_steps)
    /\ UNCHANGED <<env_steps, memVars, agentVars>>
    /\ UNCHANGED <<f_pc, f_query, f_step, f_tool, f_tool_input, f_intent,
                   f_last_obs, f_trace, f_answer, f_hist>>

\* AgentFull.run lines 57-90: the locals and the entry of the loop
FullStart(user_query) ==
    /\ UNCHANGED indexVars
    /\ kind = "full"
    /\ f_pc = "idle"
    /\ f_query' = user_query
    /\ f_trace' = EmptyFullTrace
    /\ f_last_obs' = EmptyObservation
    /\ f_tool' = ""
    /\ f_tool_input' = ""
    /\ f_intent' = ""
    /\ f_answer' = NoText
    /\ f_hist' = EmptyFullHist
    /\ IF LoopContinues(0, f_max_steps)
       THEN f_step' = 1 /\ f_pc' = "plan"
       ELSE f_step' = 0 /\ f_pc' = "synth"
    /\ UNCHANGED <<env_steps, kind, memVars, agentVars, f_arg, f_max_steps>>

\* AgentFull.run lines 91-125: the planner call of one step, its parsing,
\* the parse failure and the early return.  A response that is JSON, truthy
\* and no object makes plan.get raise.
FullPlan ==
    /\ UNCHANGED indexVars
    /\ f_pc = "plan"
    /\ \E resp \in Responses(PlanFields, NoPlanFields) :
         LET plan == SafeJsonLoads(resp.text, resp.fields, NoPlanFields)
             tool == Str(GetDefault(plan.fields, "tool", "none"))
             tool_input == Or(Get(plan.fields, "tool_input"), "{}")
             sufficient == Truthy(GetDefault(plan.fields, "sufficient", JFalse))
             final_answer == Str(GetDefault(plan.fields, "final_answer", ""))
             entry == [step |-> f_step,
                       raw |-> resp.text,
                       unparsable |-> Unparsable(resp.text, resp.fields,
                                                 NoPlanFields),
                       type |-> plan.type,
                       truthy |-> plan.truthy,
                       tool |-> IF plan.type = "dict" THEN plan.fields.tool
                                ELSE Absent,
                       sufficient |-> IF plan.type = "dict"
                                      THEN plan.fields.sufficient ELSE Absent]
         IN  /\ f_hist' = [f_hist EXCEPT !.llm_calls = @ + 1,
                                         !.error =
                                            IF ~PlanFailed(plan) /\ plan.type # "dict"
                                            THEN "AttributeError" ELSE "",
                                         !.insufficient =
                                            /\ @
                                            /\ entry.type = "dict"
                                            /\ entry.sufficient = JFalse
                                            /\ entry.tool \notin {Absent, "none"},
                                         !.plan = entry]
             /\ IF PlanFailed(plan)
                THEN /\ f_trace' = [f_trace EXCEPT
                                        !.planner_parse_error = TRUE,
                                        !.planner_raw = resp.text]
                     /\ f_answer' = resp.text
                     /\ f_pc' = "done"
                     /\ UNCHANGED <<f_tool, f_tool_input, f_intent>>
                ELSE IF plan.type # "dict"
                THEN /\ f_pc' = "aborted"
                     /\ UNCHANGED <<f_trace, f_answer, f_tool, f_tool_input,
                                    f_intent>>
                ELSE /\ f_intent' = Str(GetDefault(plan.fields, "intent", ""))
                     /\ f_tool' = tool
                     /\ f_tool_input' = tool_input
                     /\ IF PlanStops(tool, sufficient)
                        THEN /\ f_trace' = [f_trace EXCEPT
                                                !.final_step = f_step,
                                                !.final_answer = final_answer]
                             /\ f_answer' = <<final_answer>>
                             /\ f_pc' = "done"
                        ELSE /\ f_pc' = "act"
                             /\ UNCHANGED <<f_trace, f_answer>>
    /\ UNCHANGED <<sessVars, memVars, agentVars>>
    /\ UNCHANGED <<f_arg, f_max_steps, f_query, f_step, f_last_obs>>

\* AgentFull.run lines 127-136: the ACT phase of one step, the step record,
\* and the next iteration
FullAct ==
    /\ UNCHANGED indexVars
    /\ f_pc = "act"
    /\ LET obs == CallTool(f_tool, f_tool_input, f_query, ToolResult(f_step))
       IN  /\ obs.error # "raise"
           /\ f_last_obs' = obs
           /\ f_trace' = [f_trace EXCEPT !.steps = Append(@,
                  [step |-> f_step, intent |-> f_intent, tool |-> f_tool,
                   tool_input |-> f_tool_input, observation |-> obs])]
    /\ f_hist' = [f_hist EXCEPT !.acts = @ + 1]
    /\ IF LoopContinues(f_step, f_max_steps)
       THEN f_step' = f_step + 1 /\ f_pc' = "plan"
       ELSE f_step' = f_step /\ f_pc' = "synth"
    /\ UNCHANGED <<sessVars, memVars, agentVars>>
    /\ UNCHANGED <<f_arg, f_max_steps, f_query, f_tool, f_tool_input,
                   f_intent, f_answer>>

\* AgentFull.run lines 138-149: synthesis from the last observation
FullSynth ==
    /\ UNCHANGED indexVars
    /\ f_pc = "synth"
    /\ \E final \in FinalTexts :
         /\ f_answer' = final
         /\ f_trace' = [f_trace EXCEPT !.final_step = f_max_steps,
                                       !.final_answer = final[1],
                                       !.stopped_reason = "max_steps"]
    /\ f_pc' = "done"
    /\ f_hist' = [f_hist EXCEPT !.llm_calls = @ + 1,
                                !.synth = Append(@, f_last_obs)]
    /\ UNCHANGED <<sessVars, memVars, agentVars>>
    /\ UNCHANGED <<f_arg, f_max_steps, f_query, f_step, f_tool, f_tool_input,
                   f_intent, f_last_obs>>

\* a language-model call of AgentFull.run raises (lines 108, 145)
FullLlmRaises ==
    /\ UNCHANGED indexVars
    /\ f_pc \in {"plan", "synth"}
    /\ f_pc' = "aborted"
    /\ f_hist' = [f_hist EXCEPT !.error = "llm"]
    /\ UNCHANGED <<sessVars, memVars, agentVars>>
    /\ UNCHANGED <<f_arg, f_max_steps, f_query, f_step, f_tool, f_tool_input,
                   f_intent, f_last_obs, f_trace, f_answer>>

\* a tool of AgentFull._call_tool raises (lines 152-189), or _call_tool
\* itself does
FullToolRaises ==
    /\ UNCHANGED indexVars
    /\ f_pc = "act"
    /\ \/ f_tool \in FullTools
       \/ CallTool(f_tool, f_tool_input, f_query, ToolResult(f_step)).error
            = "raise"
    /\ f_pc' = "aborted"
    /\ f_hist' = [f_hist EXCEPT !.error = "tool"]
    /\ UNCHANGED <<sessVars, memVars, agentVars>>
    /\ UNCHANGED <<f_arg, f_max_steps, f_query, f_step, f_tool, f_tool_input,
                   f_intent, f_last_obs, f_trace, f_answer>>

----------------------------------------------------------------------------
(* gymadvisorai/rag.py: the TF-IDF store                                   *)
(*                                                                         *)
(* A document and a query are texts: sequences of pieces, each piece a     *)
(* word ([A-Za-z0-9_]+), a blank or a punctuation mark.  Weights are fixed *)
(* point numbers in hundredths; a similarity is kept as the numbers the    *)
(* code divides, and two similarities are compared as fractions.           *)

\* the pieces that are not words
Separators == {" ", ".", "!", "?"}

\* the documents handed to build(): two with the same words in another
\* order, one with a repeated word, one without a word, one blank
DocTexts ==
    { <<"Bench", " ", "press", ".">>,
      <<" ", "press", " ", "BENCH">>,
      <<"Squat", " ", "squat", " ", "legs">>,
      <<"!">>,
      <<" ">> }

\* the queries handed to retrieve(): a word of two documents, words of
\* all, no word at all, a word of no document
QueryTexts ==
    { <<"bench">>,
      <<"Press", " ", "legs", "?">>,
      <<"?">>,
      <<"chest">> }

\* _tokenize: the words of the text, lower-cased, in order
RECURSIVE Tokenize(_)
Tokenize(text) ==
    IF text = <<>> THEN <<>>
    ELSE IF Head(text) \in Separators THEN Tokenize(Tail(text))
    ELSE <<LowerPiece(Head(text))>> \o Tokenize(Tail(text))

\* Counter(tokens): a dict from each token to its number of occurrences
Counter(tokens) ==
    [t \in {tokens[i] : i \in 1..Len(tokens)} |->
        Cardinality({i \in 1..Len(tokens) : tokens[i] = t})]

\* [d.strip() for d in docs if d and d.strip()]
RECURSIVE StripDocs(_)
StripDocs(docs) ==
    IF docs = <<>> THEN <<>>
    ELSE IF Strip(Head(docs)) = <<>> THEN StripDocs(Tail(docs))
    ELSE <<Strip(Head(docs))>> \o StripDocs(Tail(docs))

\* one is 1.0 in fixed point
One == 100

\* math.log(n) in fixed point, for the whole numbers the model divides
Ln(n) ==
    CASE n = 1 -> 0   [] n = 2 -> 69  [] n = 3 -> 110 [] n = 4 -> 139
      [] n = 5 -> 161 [] n = 6 -> 179 [] n = 7 -> 195 [] n = 8 -> 208

\* math.log((N + 1) / (df + 1)) + 1.0
Idf(N, df) == Ln(N + 1) - Ln(df + 1) + One

\* the largest r with r * r <= n, looked for between lo and hi
RECURSIVE Root(_, _, _)
Root(n, lo, hi) ==
    IF lo = hi THEN lo
    ELSE LET mid == (lo + hi + 1) \div 2
         IN  IF mid * mid <= n THEN Root(n, mid, hi) ELSE Root(n, lo, mid - 1)

\* math.sqrt in fixed point
Sqrt(n) == Root(n, 0, 2000)

\* sum of the squares of a dict's values
RECURSIVE SumSq(_, _)
SumSq(vec, keys) ==
    IF keys = {} THEN 0
    ELSE LET t == CHOOSE x \in keys : TRUE
         IN  vec[t] * vec[t] + SumSq(vec, keys \ {t})

\* math.sqrt(sum(v * v for v in vec.values())) or 1.0
Norm(vec) ==
    LET n == Sqrt(SumSq(vec, DOMAIN vec))
    IN  IF n = 0 THEN One ELSE n

\* df of build(): for each token, the number of documents that hold it
Df(docs) ==
    LET tfs == [i \in 1..Len(docs) |-> Counter(Tokenize(docs[i]))]
    IN  [t \in UNION {DOMAIN tfs[i] : i \in 1..Len(docs)} |->
            Cardinality({i \in 1..Len(docs) : t \in DOMAIN tfs[i]})]

\* vec of build(): c * idf for each token of one document
DocVec(doc, N, df) ==
    LET tf == Counter(Tokenize(doc))
    IN  [t \in DOMAIN tf |-> tf[t] * Idf(N, df[t])]

\* dict.get(t, 0)
GetCount(d, t) == IF t \in DOMAIN d THEN d[t] ELSE 0

\* TfidfStore.__init__: the four fields of a new store
NewStore == [docs |-> <<>>, df |-> <<>>, doc_vecs |-> <<>>, norms |-> <<>>]

\* build(), line 43: self.docs
BuildDocs(st, docs) == [st EXCEPT !.docs = StripDocs(docs)]

\* build(), lines 44-54: self.df
BuildDf(st) == [st EXCEPT !.df = Df(st.docs)]

\* build(), lines 55-56: self.doc_vecs = [] and self.norms = []
BuildReset(st) == [st EXCEPT !.doc_vecs = <<>>, !.norms = <<>>]

\* build(), lines 59-64: the vector of document i joins self.doc_vecs
BuildAppendVec(st, i) ==
    [st EXCEPT !.doc_vecs = Append(@, DocVec(st.docs[i], Len(st.docs), st.df))]

\* build(), lines 63 and 65: the norm of the newest vector joins self.norms
BuildAppendNorm(st) ==
    [st EXCEPT !.norms = Append(@, Norm(st.doc_vecs[Len(st.doc_vecs)]))]

\* build(), lines 58-65: the loop, from document i on
RECURSIVE BuildVecs(_, _)
BuildVecs(st, i) ==
    IF i > Len(st.docs) THEN st
    ELSE BuildVecs(BuildAppendNorm(BuildAppendVec(st, i)), i + 1)

\* a rebuild that keeps the vectors and norms of the build before
BuildKeepsOld(st, docs) == BuildVecs(BuildDf(BuildDocs(st, docs)), 1)

\* build(), lines 43-65: the index in memory
BuildIndex(st, docs) ==
    BuildVecs(BuildReset(BuildDf(BuildDocs(st, docs))), 1)

\* the snapshot file: absent, cut short, or a pickle of a dict
NoFile == [kind |-> "absent", obj |-> <<>>]
CutFile == [kind |-> "cut", obj |-> <<>>]

\* a snapshot that is cut short
PickleDumpCut(st) == CutFile

\* a snapshot written without the norms
PickleDumpNoNorms(st) ==
    [kind |-> "pickle",
     obj |-> [docs |-> st.docs, df |-> st.df, doc_vecs |-> st.doc_vecs,
              norms |-> <<>>]]

\* build(), lines 69-73: pickle.dump of the four fields
PickleDump(st) ==
    [kind |-> "pickle",
     obj |-> [docs |-> st.docs, df |-> st.df, doc_vecs |-> st.doc_vecs,
              norms |-> st.norms]]

\* load(), lines 76-79: what opening and unpickling the file raises
LoadRaises(file) ==
    CASE file.kind = "absent" -> "FileNotFoundError"
      [] file.kind = "cut"    -> "EOFError"
      [] OTHER                -> ""

\* load(), lines 80-83: the four fields taken from the unpickled dict
Load(st, file) ==
    [st EXCEPT !.docs = file.obj["docs"], !.df = file.obj["df"],
               !.doc_vecs = file.obj["doc_vecs"], !.norms = file.obj["norms"]]

\* retrieve(), lines 89-96: the query vector over an index
QueryVec(st, query) ==
    LET q_tf == Counter(Tokenize(query))
    IN  [t \in DOMAIN q_tf |->
            q_tf[t] * Idf(Len(st.docs), GetCount(st.df, t))]

\* retrieve(), lines 101-104: the dot product with one document vector
RECURSIVE Dot(_, _, _)
Dot(q_vec, dvec, keys) ==
    IF keys = {} THEN 0
    ELSE LET t == CHOOSE x \in keys : TRUE
         IN  (IF t \in DOMAIN dvec THEN q_vec[t] * dvec[t] ELSE 0)
             + Dot(q_vec, dvec, keys \ {t})

\* retrieve(), lines 105-106: (score, i) of document i (counted from 1);
\* the score is dot / (q_norm * norm)
Scored(st, q_vec, i) ==
    [dot |-> Dot(q_vec, st.doc_vecs[i], DOMAIN q_vec),
     q_norm |-> Norm(q_vec),
     norm |-> IF st.norms[i] = 0 THEN One ELSE st.norms[i],
     i |-> i]

\* comparison of two scores, as fractions with positive denominators
ScoreLess(a, b) == a.dot * b.norm < b.dot * a.norm
ScoreEqual(a, b) == a.dot * b.norm = b.dot * a.norm
\* s > 0
ScorePositive(a) == a.dot > 0

\* tuple comparison of (score, i)
ScoredLess(a, b) ==
    ScoreLess(a, b) \/ (ScoreEqual(a, b) /\ a.i < b.i)

\* retrieve(), line 108: scored.sort(reverse=True)
RECURSIVE SortReverse(_)
SortReverse(S) ==
    IF S = {} THEN <<>>
    ELSE LET top == CHOOSE x \in S : \A y \in S \ {x} : ScoredLess(y, x)
         IN  <<top>> \o SortReverse(S \ {top})

\* retrieve() without the s > 0 test of line 109
KeepAll(a) == TRUE

\* retrieve(), line 109: the test on one member of scored[:k]
Kept(a) == ScorePositive(a)

\* retrieve(), line 109: scored[:k], then the members that pass the test
TopK(ranked, k) ==
    SelectSeq(SubSeq(ranked, 1, IF k < Len(ranked) THEN k ELSE Len(ranked)),
              Kept)

\* retrieve(), lines 89-110, on the index the store holds: the members of
\* scored the result is read from and the documents returned, or the
\* IndexError of self.norms[i] or self.docs[i] (documents count from 1)
Retrieve(st, query, k) ==
    IF Len(st.doc_vecs) > Len(st.norms)
    THEN [raised |-> "IndexError", hits |-> <<>>, docs |-> <<>>]
    ELSE LET q_vec == QueryVec(st, query)
             scored == {Scored(st, q_vec, i) : i \in 1..Len(st.doc_vecs)}
             hits == TopK(SortReverse(scored), k)
         IN  IF \E j \in 1..Len(hits) : hits[j].i > Len(st.docs)
             THEN [raised |-> "IndexError", hits |-> <<>>, docs |-> <<>>]
             ELSE [raised |-> "", hits |-> hits,
                   docs |-> [j \in 1..Len(hits) |-> st.docs[hits[j].i]]]

\* a call that raised
Raised(error) == [raised |-> error, hits |-> <<>>, docs |-> <<>>]
\* no call yet
NoResult == [raised |-> "none", hits |-> <<>>, docs |-> <<>>]

\* the two stores on one path: the one that builds, and a fresh one
Stores == {"built", "fresh"}

\* every list of at most n documents
DocLists(n) == UNION {[1..m -> DocTexts] : m \in 0..n}

\* the document set of an earlier build
OtherDocs == << <<"Squat", " ", "squat", " ", "legs">>, <<"Bench", " ", "press", ".">> >>

\* new stores, no snapshot, and the arguments of the calls to come
RagStart(docs, query, k) ==
    /\ r_docs = docs
    /\ r_query = query
    /\ r_k = k
    /\ r_store = [s \in Stores |-> NewStore]
    /\ r_file = NoFile
    /\ r_builds = <<>>
    /\ r_synced = FALSE
    /\ r_out = [s \in Stores |-> NoResult]
    /\ b_pc = "idle"
    /\ b_docs = <<>>

\* no TF-IDF activity
RagIdle == RagStart(<<>>, <<>>, 0)

\* TfidfStore.build(docs) on the building store; the other document set
\* is that of an earlier index, built first if at all
RagBuild(docs) ==
    /\ UNCHANGED <<loopVars, graphVars, callVars>>
    /\ Len(r_builds) < MaxBuilds
    /\ docs = OtherDocs => r_builds = <<>>
    /\ LET st == BuildIndex(r_store["built"], docs)
       IN  /\ r_store' = [r_store EXCEPT !["built"] = st]
           /\ r_file' = PickleDump(st)
    /\ r_builds' = Append(r_builds, docs)
    /\ r_synced' = FALSE
    /\ r_out' = [s \in Stores |->
                    IF s = "built" \/ r_store[s].docs = <<>> THEN NoResult
                    ELSE r_out[s]]
    /\ UNCHANGED <<r_docs, r_query, r_k, b_pc, b_docs>>

\* TfidfStore.load() on the fresh store
RagLoad ==
    /\ UNCHANGED <<loopVars, graphVars, callVars>>
    /\ r_out["fresh"] = NoResult \/ LoadRaises(r_file) = ""
    /\ IF LoadRaises(r_file) # ""
       THEN /\ r_out' = [r_out EXCEPT !["fresh"] = Raised(LoadRaises(r_file))]
            /\ UNCHANGED <<r_store, r_synced>>
       ELSE /\ r_store' = [r_store EXCEPT !["fresh"] = Load(@, r_file)]
            /\ r_synced' = (b_pc = "idle")
            /\ r_out' = [r_out EXCEPT !["fresh"] = NoResult]
    /\ UNCHANGED <<r_docs, r_query, r_k, r_file, r_builds, b_pc, b_docs>>

\* TfidfStore.retrieve(query, k) on store s: load() first when the store
\* holds no documents
RagRetrieve(s) ==
    /\ UNCHANGED <<loopVars, graphVars, callVars>>
    /\ r_out[s] = NoResult
    /\ LET loads == r_store[s].docs = <<>>
           error == IF loads THEN LoadRaises(r_file) ELSE ""
           st == IF loads /\ error = "" THEN Load(r_store[s], r_file)
                 ELSE r_store[s]
       IN  /\ r_store' = [r_store EXCEPT ![s] = st]
           /\ r_out' = [r_out EXCEPT ![s] =
                  IF error # "" THEN Raised(error)
                  ELSE Retrieve(st, r_query, r_k)]
           /\ r_synced' = IF s = "fresh" /\ loads /\ error = "" THEN TRUE
                          ELSE r_synced
    /\ UNCHANGED <<r_docs, r_query, r_k, r_file, r_builds, b_pc, b_docs>>


----------------------------------------------------------------------------
(* tools/graph_rag.py: the local graph query                               *)
(*                                                                         *)
(* A graph is the list of edges of graph.json or edges.csv, in file order, *)
(* as nx.MultiDiGraph.add_edge receives them.  A node is its name, a text  *)
(* of pieces; `t in name` is decided on whole pieces.                      *)

\* _query_local: [:5] of matched and of paths
MatchedCap == 5
\* _query_local: [:10] of the successors of a matched node
SuccessorCap == 10
\* _query_local: [:20] of edges_out
EdgeCap == 20
\* _query_local: [:50] of the target nodes of the path search
TargetCap == 50

\* node names
Bench(i) == <<"Ben", "ch", ToString(i)>>
Leg(i) == <<"leg", ToString(i)>>
Chest == <<"ch", "est">>

\* one edge of the file; relation may be missing
Edge(source, target, relation) ==
    [source |-> source, target |-> target, relation |-> relation]

\* a chain Chest - Bench1 - Leg1 - Leg2 - Leg3 with edges of both
\* directions, and two nodes apart from it
ChainEdges ==
    << Edge(Bench(1), Chest, "targets"), Edge(Leg(1), Bench(1), Absent),
       Edge(Leg(1), Leg(2), "requires"), Edge(Leg(3), Leg(2), "requires"),
       Edge(<<"est", "1">>, <<"est", "2">>, "tagged_as") >>

\* one node with n successors
StarEdges(n) == [i \in 1..n |-> Edge(Bench(1), Leg(i), "requires")]

\* n nodes of one name pattern, each with an edge to the same node
ManyEdges(n) == [i \in 1..n |-> Edge(Bench(i), Chest, "targets")]

\* n parallel edges from each of two nodes to the same node
ParallelEdges(n) ==
    [i \in 1..(2 * n) |->
        IF i <= n THEN Edge(Bench(1), Chest, ToString(i))
        ELSE Edge(Bench(2), Chest, ToString(i - n))]

\* the nodes of the scenario "Bench Press targets Chest, Chest part_of
\* Upper Body"
BenchPress == <<"Bench", " ", "Press">>
ChestNode == <<"Chest">>
UpperBody == <<"Upper", " ", "Body">>
ScenarioEdges ==
    << Edge(BenchPress, ChestNode, "targets"),
       Edge(ChestNode, UpperBody, "part_of") >>

\* rows that repeat an edge: to the letter, in another case and spacing,
\* and by the default relation; next to them an edge of another relation
\* between the same nodes, a self-loop, and a row without a source
DupEdges ==
    << Edge(BenchPress, ChestNode, "targets"),
       Edge(BenchPress, ChestNode, "targets"),
       Edge(<<" ", "BENCH", " ", " ", "Press">>, ChestNode, "TARGETS"),
       Edge(BenchPress, ChestNode, "requires"),
       Edge(ChestNode, ChestNode, "targets"),
       Edge(BenchPress, ChestNode, Absent),
       Edge(BenchPress, ChestNode, "related_to"),
       Edge(<<>>, ChestNode, "targets") >>

\* n nodes of one name pattern with a self-loop each, then one more such
\* node with an edge to another node
LoopEdges(n) ==
    [i \in 1..(n + 1) |->
        IF i <= n THEN Edge(Bench(i), Bench(i), "alternative")
        ELSE Edge(Bench(i), Chest, "targets")]

\* the edge lists of the model
EdgeLists ==
    { <<>>, ChainEdges, StarEdges(SuccessorCap + 1), ManyEdges(MatchedCap + 2),
      ParallelEdges(SuccessorCap + 1), ScenarioEdges, LoopEdges(MatchedCap) }

\* the queries of the model
GraphQueries ==
    { <<"ben", "ch">>,
      <<"BEN", "ch", "?", " ", " ", "ch">>,
      <<"ch", " ", "(", "LEG", ")">>,
      <<"ch", " ", "!">>,
      <<"bench">>,
      <<"squat">> }

\* data/graph: graph.json and edges.csv, each absent or holding edges
NoEdges == [exists |-> FALSE, edges |-> <<>>]
EdgeFile(edges) == [exists |-> TRUE, edges |-> edges]
GraphFiles ==
    {[json |-> NoEdges, csv |-> NoEdges]}
        \cup {[json |-> EdgeFile(e), csv |-> NoEdges] : e \in EdgeLists}
        \cup {[json |-> NoEdges, csv |-> EdgeFile(e)] :
                    e \in {ChainEdges, DupEdges}}

\* _load_local_graph: the edges added to the MultiDiGraph, in order
LoadLocalGraph(files) ==
    LET edges == IF files.json.exists THEN files.json.edges
                 ELSE IF files.csv.exists THEN files.csv.edges
                 ELSE <<>>
    IN  [i \in 1..Len(edges) |->
            Edge(edges[i].source, edges[i].target,
                 GetDefault(edges[i], "relation", "related_to"))]

\* s[:n]
Take(s, n) == SubSeq(s, 1, IF n < Len(s) THEN n ELSE Len(s))

\* the members of a sequence
Range(s) == {s[i] : i \in 1..Len(s)}

\* the sequence without the members it holds again: each member stays at
\* the place of its first occurrence
Distinct(s) ==
    LET firsts == {i \in 1..Len(s) : \A j \in 1..(i - 1) : s[j] # s[i]}
    IN  [k \in 1..Cardinality(firsts) |->
            s[CHOOSE i \in firsts : Cardinality({j \in firsts : j < i}) = k - 1]]

\* the sequences of a sequence, joined
RECURSIVE Flatten(_)
Flatten(ss) == IF ss = <<>> THEN <<>> ELSE Head(ss) \o Flatten(Tail(ss))

\* g.nodes(): the nodes in the order add_edge met them
GraphNodes(g) ==
    Distinct([i \in 1..(2 * Len(g)) |->
                 IF i % 2 = 1 THEN g[(i + 1) \div 2].source
                 ELSE g[i \div 2].target])

\* g.successors(n): the targets of the edges out of n, each once
Successors(g, n) ==
    LET IsOut(e) == e.source = n
    IN  Distinct([i \in 1..Len(SelectSeq(g, IsOut)) |-> SelectSeq(g, IsOut)[i].target])

\* g.get_edge_data(n, nbr): the parallel edges from n to nbr
EdgeData(g, n, nbr) ==
    LET IsEdge(e) == e.source = n /\ e.target = nbr
    IN  SelectSeq(g, IsEdge)

\* the neighbours of n in g.to_undirected()
Neighbours(g, n) ==
    {g[i].target : i \in {j \in 1..Len(g) : g[j].source = n}}
        \cup {g[i].source : i \in {j \in 1..Len(g) : g[j].target = n}}

\* the number of characters of a piece
PieceLen(w) ==
    CASE w \in {"ben", "BEN", "Ben", "est", "leg", "LEG"} -> 3
      [] w = "ch" -> 2
      [] w \in {"squat", "bench", "Bench", "BENCH", "chest", "Chest"} -> 5
      [] OTHER -> 1

\* len(t)
RECURSIVE CharLen(_)
CharLen(t) == IF t = <<>> THEN 0 ELSE PieceLen(Head(t)) + CharLen(Tail(t))

\* the characters of w.strip(".,!?;:()[]{}")
Punctuation == {".", ",", "!", "?", ";", ":", "(", ")", "[", "]", "{", "}"}

\* w.strip(".,!?;:()[]{}")
RECURSIVE StripPunctuation(_)
StripPunctuation(w) ==
    IF w = <<>> THEN w
    ELSE IF Head(w) \in Punctuation THEN StripPunctuation(Tail(w))
    ELSE IF w[Len(w)] \in Punctuation
         THEN StripPunctuation(SubSeq(w, 1, Len(w) - 1))
    ELSE w

\* q.split(): the runs of pieces between blanks
RECURSIVE Split(_, _)
Split(q, word) ==
    IF q = <<>> THEN (IF word = <<>> THEN <<>> ELSE <<word>>)
    ELSE IF Head(q) = " "
         THEN (IF word = <<>> THEN <<>> ELSE <<word>>) \o Split(Tail(q), <<>>)
    ELSE Split(Tail(q), Append(word, Head(q)))

\* _query_local, line 172: len(t) > 2
LongEnough(t) == CharLen(t) > 2

\* _query_local, lines 171-172: tokens
QueryTokens(query_text) ==
    LET words == Split(Lower(query_text), <<>>)
    IN  SelectSeq([i \in 1..Len(words) |-> Lower(StripPunctuation(words[i]))],
                  LongEnough)

\* _query_local, line 173: any(t in str(n).lower() for t in tokens)
NodeMatches(n, tokens) ==
    \E i \in 1..Len(tokens) : Contains(Lower(n), tokens[i])

\* matched without the [:5]
MatchedAll(g, tokens) ==
    LET Hit(n) == NodeMatches(n, tokens)
    IN  SelectSeq(GraphNodes(g), Hit)

\* _query_local, line 173: matched
Matched(g, tokens) ==
    LET Hit(n) == NodeMatches(n, tokens)
    IN  Take(SelectSeq(GraphNodes(g), Hit), MatchedCap)

\* _query_local, lines 177-179: the edges collected for matched node n
NodeEdges(g, n) ==
    LET nbrs == Take(Successors(g, n), SuccessorCap)
    IN  Flatten([j \in 1..Len(nbrs) |->
            [e \in 1..Len(EdgeData(g, n, nbrs[j])) |->
                Edge(n, nbrs[j], EdgeData(g, n, nbrs[j])[e].relation)]])

\* _query_local, lines 175-179: edges_out
EdgesOut(g, matched) ==
    Flatten([i \in 1..Len(matched) |-> NodeEdges(g, matched[i])])

\* the simple paths of the undirected graph one node longer than those of P
Extend(g, P) ==
    UNION {{Append(p, n) : n \in Neighbours(g, p[Len(p)]) \ Range(p)} : p \in P}

\* the shortest paths that lead from the start of the paths of P to t,
\* looked for through at most limit more edges
RECURSIVE ShortestPaths(_, _, _, _)
ShortestPaths(g, P, t, limit) ==
    LET found == {p \in P : p[Len(p)] = t}
    IN  IF found # {} THEN found
        ELSE IF limit = 0 \/ P = {} THEN {}
        ELSE ShortestPaths(g, Extend(g, P), t, limit - 1)

\* the place of node n in g.nodes()
NodeIndex(nodes, n) == CHOOSE i \in 1..Len(nodes) : nodes[i] = n

\* a number that orders the paths of a graph
RECURSIVE PathKey(_, _)
PathKey(nodes, p) ==
    IF p = <<>> THEN 0
    ELSE NodeIndex(nodes, p[Len(p)])
         + (Len(nodes) + 1) * PathKey(nodes, SubSeq(p, 1, Len(p) - 1))

\* the members of nx.shortest_path's answer: it returns one shortest path;
\* which one, among several, is left open ("low" or "high")
ShortestPath(g, s, t, limit, pick) ==
    LET all == ShortestPaths(g, {<<s>>}, t, limit)
        nodes == GraphNodes(g)
    IN  IF all = {} THEN <<>>
        ELSE CHOOSE p \in all : \A q \in all :
                 IF pick = "low" THEN PathKey(nodes, p) <= PathKey(nodes, q)
                 ELSE PathKey(nodes, p) >= PathKey(nodes, q)

\* a length test that lets every path through
PathKeptAlways(p, max_hops) == TRUE

\* a length test that counts nodes where line 189 counts edges
PathKeptExclusive(p, max_hops) == 2 <= Len(p) /\ Len(p) <= max_hops

\* _query_local, line 189: 2 <= len(p) <= max_hops + 1
PathKept(p, max_hops) == 2 <= Len(p) /\ Len(p) <= max_hops + 1

\* _query_local, lines 184-192: the paths found from matched node s.  A
\* path of more than max_hops edges fails the test of line 189, so the
\* search is not carried further than max_hops + 1 edges
RECURSIVE PathsFrom(_, _, _, _, _)
PathsFrom(g, s, targets, max_hops, pick) ==
    IF targets = <<>> THEN <<>>
    ELSE LET t == Head(targets)
             p == IF s = t THEN <<>>
                  ELSE ShortestPath(g, s, t, max_hops + 1, pick)
             rest == PathsFrom(g, s, Tail(targets), max_hops, pick)
         IN  IF p # <<>> /\ PathKept(p, max_hops) THEN <<p>> \o rest ELSE rest

\* _query_local, lines 183-194: the loop over matched, left once five
\* paths are there
RECURSIVE PathSearch(_, _, _, _, _)
PathSearch(g, matched, paths, max_hops, pick) ==
    IF matched = <<>> THEN paths
    ELSE LET more == paths \o PathsFrom(g, Head(matched),
                         Take(GraphNodes(g), TargetCap), max_hops, pick)
         IN  IF Len(more) >= MatchedCap THEN more
             ELSE PathSearch(g, Tail(matched), more, max_hops, pick)

\* _query_local(g, query_text, max_hops)
QueryLocal(g, query_text, max_hops, pick) ==
    LET matched == Matched(g, QueryTokens(query_text))
    IN  [type |-> "graph_rag", mode |-> "local",
         matched_nodes |-> matched,
         edges |-> Take(EdgesOut(g, matched), EdgeCap),
         paths |-> Take(PathSearch(g, matched, <<>>, max_hops, pick), MatchedCap)]

\* _norm(s): stripped, lower case, each run of blanks one blank
RECURSIVE Collapse(_)
Collapse(s) ==
    IF Len(s) < 2 THEN s
    ELSE IF s[1] = " " /\ s[2] = " " THEN Collapse(Tail(s))
    ELSE <<s[1]>> \o Collapse(Tail(s))
NormText(s) == Lower(Collapse(Strip(s)))

\* the key of _dedup_edges, line 19
EdgeKey(e) ==
    << NormText(e.source),
       NormText(<<GetDefault(e, "relation", "related_to")>>),
       NormText(e.target) >>

\* a _dedup_edges that keeps every edge
DedupKeepsAll(edges) ==
    [i \in 1..Len(edges) |->
        Edge(edges[i].source, edges[i].target,
             GetDefault(edges[i], "relation", "related_to"))]

\* _dedup_edges: of the edges of one key the first stays
DedupEdges(edges) ==
    LET firsts == {i \in 1..Len(edges) :
                      \A j \in 1..(i - 1) : EdgeKey(edges[j]) # EdgeKey(edges[i])}
        kept == [k \in 1..Cardinality(firsts) |->
                    edges[CHOOSE i \in firsts :
                              Cardinality({j \in firsts : j < i}) = k - 1]]
    IN  [k \in 1..Len(kept) |->
            Edge(kept[k].source, kept[k].target,
                 GetDefault(kept[k], "relation", "related_to"))]

\* data/catalog/exercises.json: absent, or a list of exercises
NoCatalog == [exists |-> FALSE, exercises |-> <<>>]
Catalogs ==
    { NoCatalog,
      [exists |-> TRUE,
       exercises |->
           << [name |-> BenchPress, equipment |-> << <<"barbell">>, <<>> >>,
               muscles_primary |-> << ChestNode, ChestNode >>,
               tags |-> << <<"push">> >>],
              [name |-> <<>>, equipment |-> << <<"barbell">> >>,
               muscles_primary |-> <<>>, tags |-> <<>>] >>] }

\* generate_edges_from_catalog: requires, targets and tagged_as edges of
\* the named exercises, empty members left out
GenerateEdgesFromCatalog(catalog) ==
    LET Filled(x) == x # <<>>
        Of(ex, members, relation) ==
            [i \in 1..Len(SelectSeq(members, Filled)) |->
                Edge(ex.name, SelectSeq(members, Filled)[i], relation)]
        ExEdges(ex) ==
            IF ex.name = <<>> THEN <<>>
            ELSE Of(ex, ex.equipment, "requires")
                     \o Of(ex, ex.muscles_primary, "targets")
                     \o Of(ex, ex.tags, "tagged_as")
    IN  IF ~catalog.exists THEN <<>>
        ELSE DedupEdges(Flatten([i \in 1..Len(catalog.exercises) |->
                                    ExEdges(catalog.exercises[i])]))

\* ingest_edges_to_json: the rows of edges.csv that have a source and a
\* target, then the edges of the catalog, without repeated keys; this is
\* what graph.json holds afterwards
IngestEdgesToJson(files, catalog) ==
    LET HasEnds(e) == e.source # <<>> /\ e.target # <<>>
        rows == IF files.csv.exists THEN SelectSeq(files.csv.edges, HasEnds)
                ELSE <<>>
        edges == [i \in 1..Len(rows) |->
                     Edge(rows[i].source, rows[i].target,
                          GetDefault(rows[i], "relation", "related_to"))]
    IN  DedupEdges(edges \o GenerateEdgesFromCatalog(catalog))

\* no call yet
NoGraphResult ==
    [type |-> "", mode |-> "", matched_nodes |-> <<>>, edges |-> <<>>,
     paths |-> <<>>]

\* before _load_local_graph: the files and the arguments of the calls to come
GraphStart(files, query_text, max_hops, pick) ==
    /\ g_files = files
    /\ g_query = query_text
    /\ g_hops = max_hops
    /\ g_pick = pick
    /\ g_pc = "start"
    /\ g_graph = <<>>
    /\ g_out = NoGraphResult

\* no graph activity
GraphIdle ==
    GraphStart([json |-> NoEdges, csv |-> NoEdges], <<>>, 0, "low")

\* g = _load_local_graph()
GraphLoad ==
    /\ UNCHANGED <<loopVars, ragVars, callVars>>
    /\ g_pc = "start"
    /\ g_graph' = LoadLocalGraph(g_files)
    /\ g_pc' = "loaded"
    /\ UNCHANGED <<g_files, g_query, g_hops, g_pick, g_out>>

\* ingest_edges_to_json() runs before the graph is loaded
GraphIngest(catalog) ==
    /\ UNCHANGED <<loopVars, ragVars, callVars>>
    /\ g_pc = "start"
    /\ g_files' = [g_files EXCEPT
                      !.json = EdgeFile(IngestEdgesToJson(g_files, catalog))]
    /\ UNCHANGED <<g_query, g_hops, g_pick, g_pc, g_graph, g_out>>

\* _query_local(g, query_text, max_hops)
GraphQuery ==
    /\ UNCHANGED <<loopVars, ragVars, callVars>>
    /\ g_pc = "loaded"
    /\ g_out' = QueryLocal(g_graph, g_query, g_hops, g_pick)
    /\ g_pc' = "done"
    /\ UNCHANGED <<g_files, g_query, g_hops, g_pick, g_graph>>

----------------------------------------------------------------------------
(* tools/graph_rag.py query: Neo4j first when asked for and configured,    *)
(* the local graph otherwise or when Neo4j fails                           *)

\* _query_local's default max_hops
DefaultHops == 2
\* _query_neo4j: [:6] of the tokens, limit = 25, [:20] of the nodes
Neo4jTokenCap == 6
Neo4jLimit == 25
Neo4jNodeCap == 20

\* the values of an environment variable: unset, empty, blank, or a text
EnvUnset == NoText
ModeValues ==
    { EnvUnset, <<>>, <<"local">>, <<"neo4j">>, <<" ", "NEO4J", " ">>,
      <<"auto">> }
SecretValues == { EnvUnset, <<" ">>, <<"secret">> }

\* os.getenv(name, "") and os.getenv(name) or default
GetEnv(value, default) == IF value = EnvUnset THEN default ELSE value
GetEnvOr(value, default) ==
    IF value = EnvUnset \/ value = <<>> THEN default ELSE value

\* query, line 229: the mode
GraphRagMode(env) == Lower(Strip(GetEnvOr(env.mode, <<"local">>)))

\* _neo4j_configured: the three variables are set and not blank
Neo4jConfigured(env) ==
    /\ Strip(GetEnv(env.uri, <<>>)) # <<>>
    /\ Strip(GetEnv(env.user, <<>>)) # <<>>
    /\ Strip(GetEnv(env.password, <<>>)) # <<>>

\* a query that goes to Neo4j whatever the mode says
TriesNeo4jAlways(env) == Neo4jConfigured(env)

\* query, line 231: Neo4j is tried
TriesNeo4j(env) == GraphRagMode(env) = <<"neo4j">> /\ Neo4jConfigured(env)

\* what the Neo4j service does with a query: it fails, or it answers from
\* the edges it holds
Neo4jDown == [up |-> FALSE, error |-> "ServiceUnavailable", edges |-> <<>>]
Neo4jHolding(edges) == [up |-> TRUE, error |-> "", edges |-> edges]
Neo4jServices == { Neo4jDown, Neo4jHolding(<<>>), Neo4jHolding(ScenarioEdges) }

\* _query_neo4j, line 204: the tokens
Neo4jTokens(query_text) ==
    Take(SelectSeq(Split(query_text, <<>>), LongEnough), Neo4jTokenCap)

\* _query_neo4j on a service that answers: for each token the edges with
\* an end whose name holds it, at most `limit` rows; the nodes of the rows
\* (the order of the rows and of the nodes is the service's and the set's:
\* `pick` stands for it)
QueryNeo4j(service, query_text, limit, pick) ==
    LET tokens == Neo4jTokens(query_text)
        RowsOf(tok) ==
            LET Hit(e) == \/ Contains(Lower(e.source), Lower(tok))
                          \/ Contains(Lower(e.target), Lower(tok))
            IN  SelectSeq(service.edges, Hit)
        found == Flatten([i \in 1..Len(tokens) |-> RowsOf(tokens[i])])
        rows == IF pick = "low" THEN found
                ELSE [i \in 1..Len(found) |-> found[Len(found) + 1 - i]]
        edges == Take(rows, limit)
        nodes == Distinct([i \in 1..(2 * Len(edges)) |->
                     IF i % 2 = 1 THEN edges[(i + 1) \div 2].source
                     ELSE edges[i \div 2].target])
    IN  [type |-> "graph_rag", mode |-> "neo4j",
         matched_nodes |-> Take(nodes, Neo4jNodeCap),
         edges |-> Take(edges, limit),
         paths |-> <<>>]

\* the warning of line 237
Warning(e) == <<"Neo4j failed; using local graph. Error: ", e>>

\* a fallback that does not tell
WithWarningDropped(out, e) == out

\* query, line 237: out["warning"] = ...
WithWarning(out, e) == [warning |-> Warning(e)] @@ out

\* nothing returned
NoOutput == [type |-> ""]
\* vector_obs = None, graph_obs = None
NoObs == [type |-> "None"]

\* before a call of graph_rag.query
QueryStart(env, broken) ==
    /\ q_env = env
    /\ q_broken = broken
    /\ q_pc = "idle"
    /\ q_err = ""
    /\ q_log = <<>>
    /\ q_out = NoOutput

NoEnv == [mode |-> EnvUnset, uri |-> EnvUnset, user |-> EnvUnset,
          password |-> EnvUnset]

\* before a call of rag_orchestrator.query
OrchStart ==
    /\ o_pc = "idle"
    /\ o_args = [run_vector |-> TRUE, run_graph |-> TRUE]
    /\ o_vector = NoObs
    /\ o_graph = NoObs
    /\ o_out = NoOutput

\* query, lines 229-231: the mode is read and the engine chosen
QueryBegin ==
    /\ UNCHANGED <<loopVars, answerVars, ragVars, graphVars, orchVars>>
    /\ q_pc = "begin"
    /\ q_pc' = IF TriesNeo4j(q_env) THEN "neo4j" ELSE "local"
    /\ UNCHANGED <<q_env, q_broken, q_err, q_log, q_out>>

\* query, lines 232-234: _query_neo4j returns, or raises into the handler
QueryTryNeo4j(service) ==
    /\ UNCHANGED <<loopVars, answerVars, ragVars, graphVars, orchVars>>
    /\ q_pc = "neo4j"
    /\ q_log' = Append(q_log, [engine |-> "neo4j", ok |-> service.up])
    /\ IF service.up
       THEN /\ q_out' = QueryNeo4j(service, g_query, Neo4jLimit, g_pick)
            /\ q_pc' = "done"
            /\ UNCHANGED q_err
       ELSE /\ q_err' = service.error
            /\ q_pc' = "fallback"
            /\ UNCHANGED q_out
    /\ UNCHANGED <<q_env, q_broken>>

\* query, lines 235-241: the local graph is loaded and queried; json.load
\* or e["source"] raises on a graph.json that is no graph
QueryLocalGraph ==
    /\ UNCHANGED <<loopVars, answerVars, ragVars, orchVars>>
    /\ q_pc \in {"local", "fallback"}
    /\ IF q_broken /\ g_files.json.exists
       THEN /\ q_pc' = "raised"
            /\ q_log' = Append(q_log, [engine |-> "local", ok |-> FALSE])
            /\ q_err' = "local graph"
            /\ UNCHANGED <<q_out, g_graph, g_out>>
       ELSE /\ g_graph' = LoadLocalGraph(g_files)
            /\ g_out' = QueryLocal(g_graph', g_query, DefaultHops, g_pick)
            /\ q_out' = IF q_pc = "fallback" THEN WithWarning(g_out', q_err)
                        ELSE g_out'
            /\ q_log' = Append(q_log, [engine |-> "local", ok |-> TRUE])
            /\ q_pc' = "done"
            /\ UNCHANGED q_err
    /\ UNCHANGED <<q_env, q_broken, g_files, g_query, g_hops, g_pick, g_pc>>

\* a caller calls graph_rag.query(query_text)
QueryCall ==
    /\ UNCHANGED <<loopVars, answerVars, ragVars, graphVars, orchVars>>
    /\ o_pc = "idle"
    /\ q_pc = "idle"
    /\ q_pc' = "begin"
    /\ UNCHANGED <<q_env, q_broken, q_err, q_log, q_out>>

----------------------------------------------------------------------------
(* gymadvisorai/rag.py: EmbeddingStore and answer_with_rag                 *)
(*                                                                         *)
(* An embedding is a vector of two whole numbers; the vectors of the model *)
(* have whole norms.                                                       *)

\* the vectors llm_embed returns for a question
EmbedVecs == { <<1, 0>>, <<0, 1>>, <<0, -1>>, <<3, 4>>, <<0, 0>> }

\* the vector llm_embed returned for a document when the index was built
DocEmbedding(doc) ==
    CASE Head(doc) = "Bench" -> <<3, 4>>
      [] Head(doc) = "Squat" -> <<0, 1>>
      [] OTHER               -> <<1, 0>>

\* EmbeddingStore.build, line 137 and EmbeddingStore.retrieve, line 164:
\* math.sqrt(sum(x * x for x in v)) or 1.0
EmbNorm(v) ==
    LET n == Sqrt(v[1] * v[1] + v[2] * v[2])
    IN  IF n = 0 THEN 1 ELSE n

\* EmbeddingStore.build, lines 127-146: the snapshot of an index of docs
EmbeddingIndex(docs) ==
    LET kept == StripDocs(docs)
        vecs == [i \in 1..Len(kept) |-> DocEmbedding(kept[i])]
    IN  [kind |-> "pickle",
         obj |-> [docs |-> kept, vecs |-> vecs,
                  norms |-> [i \in 1..Len(kept) |-> EmbNorm(vecs[i])]]]

\* EmbeddingStore.retrieve, lines 166-172: (score, i) of document i
EmbScored(obj, q_vec, i) ==
    [dot |-> q_vec[1] * obj.vecs[i][1] + q_vec[2] * obj.vecs[i][2],
     q_norm |-> EmbNorm(q_vec),
     norm |-> IF obj.norms[i] = 0 THEN 1 ELSE obj.norms[i],
     i |-> i]

\* EmbeddingStore().retrieve(query, k), lines 159-176, of a new store: the
\* snapshot is loaded, the question embedded (embedded is the vector, or
\* <<>> when llm_embed raises), the documents scored and the best k with
\* a positive score returned
EmbRetrieve(file, embedded, k) ==
    IF LoadRaises(file) # "" THEN Raised(LoadRaises(file))
    ELSE IF embedded = <<>> THEN Raised("llm_embed")
    ELSE LET obj == file.obj
             scored == {EmbScored(obj, embedded, i) : i \in 1..Len(obj.vecs)}
             hits == TopK(SortReverse(scored), k)
         IN  [raised |-> "", hits |-> hits,
              docs |-> [j \in 1..Len(hits) |-> obj.docs[hits[j].i]]]

\* TfidfStore().retrieve(query, k) of a new store: load(), then retrieve
TfidfRetrieve(file, query, k) ==
    IF LoadRaises(file) # "" THEN Raised(LoadRaises(file))
    ELSE Retrieve(Load(NewStore, file), query, k)

\* answer_with_rag, line 287: the embedding store is tried
TriesEmbeddings(settings) ==
    settings.llm_enabled /\ settings.openai_embedding_model \notin {None, ""}

\* answer_with_rag, line 297: used = used if retrieved else "tfidf"
UsedAfterTfidf(used, retrieved) == IF retrieved # <<>> THEN used ELSE "tfidf"

\* the strings answer_with_rag returns: the no-context line (line 300),
\* the snippets under their label (lines 305 and 314), the model's text
NoContext ==
    [kind |-> "no context", used |-> "", llm_off |-> FALSE, context |-> <<>>]
Snippets(used, llm_off, context) ==
    [kind |-> "snippets", used |-> used, llm_off |-> llm_off,
     context |-> context]
ChatText == [kind |-> "llm", used |-> "", llm_off |-> FALSE, context |-> <<>>]
NoAnswer == [kind |-> "", used |-> "", llm_off |-> FALSE, context |-> <<>>]

\* before a call of answer_with_rag
AnswerStart(settings, emb, question, k) ==
    /\ w_settings = settings
    /\ w_emb = emb
    /\ w_args = [question |-> question, k |-> k]
    /\ w_pc = "idle"
    /\ w_retrieved = <<>>
    /\ w_used = ""
    /\ w_log = <<>>
    /\ w_out = NoAnswer

NoSettings == [llm_enabled |-> FALSE, openai_embedding_model |-> None]

\* no call of answer_with_rag
AnswerIdle == AnswerStart(NoSettings, NoFile, <<>>, 0)

\* no call of graph_rag.query, rag_orchestrator.query or answer_with_rag
CallIdle == QueryStart(NoEnv, FALSE) /\ OrchStart /\ AnswerIdle

\* answer_with_rag, lines 284-287
AnswerBegin ==
    /\ UNCHANGED <<loopVars, ragVars, graphVars, queryVars, orchVars>>
    /\ w_pc = "idle"
    /\ w_args.question # <<>>
    /\ w_retrieved' = <<>>
    /\ w_used' = "tfidf"
    /\ w_pc' = IF TriesEmbeddings(w_settings) THEN "embeddings" ELSE "tfidf"
    /\ UNCHANGED <<w_settings, w_emb, w_args, w_log, w_out>>

\* answer_with_rag, lines 288-295: the embedding store answers or raises
AnswerEmbeddings(embedded) ==
    /\ UNCHANGED <<loopVars, ragVars, graphVars, queryVars, orchVars>>
    /\ w_pc = "embeddings"
    /\ LET got == EmbRetrieve(w_emb, embedded, w_args.k)
       IN  /\ w_retrieved' = IF got.raised = "" THEN got.docs ELSE <<>>
           /\ w_used' = IF got.raised = "" THEN "embeddings" ELSE w_used
           /\ w_log' = Append(w_log, [store |-> "embeddings",
                                      raised |-> got.raised,
                                      docs |-> got.docs])
           /\ w_pc' = IF got.raised = "" /\ got.docs # <<>> THEN "answer"
                      ELSE "tfidf"
    /\ UNCHANGED <<w_settings, w_emb, w_args, w_out>>

\* answer_with_rag, lines 295-300: the TF-IDF store answers or raises out
\* of the function; without documents the no-context line is returned
AnswerTfidf ==
    /\ UNCHANGED <<loopVars, ragVars, graphVars, queryVars, orchVars>>
    /\ w_pc = "tfidf"
    /\ LET got == TfidfRetrieve(r_file, w_args.question, w_args.k)
       IN  /\ w_log' = Append(w_log, [store |-> "tfidf",
                                      raised |-> got.raised,
                                      docs |-> got.docs])
           /\ IF got.raised # ""
              THEN /\ w_pc' = "raised"
                   /\ UNCHANGED <<w_retrieved, w_used, w_out>>
              ELSE /\ w_retrieved' = got.docs
                   /\ w_used' = UsedAfterTfidf(w_used, got.docs)
                   /\ IF got.docs = <<>>
                      THEN w_pc' = "done" /\ w_out' = NoContext
                      ELSE w_pc' = "answer" /\ UNCHANGED w_out
    /\ UNCHANGED <<w_settings, w_emb, w_args>>

\* what llm_chat does: a text, a blank text, or an exception
ChatOutcomes == {"text", "blank", "raise"}

\* answer_with_rag, lines 302-314: the snippets without a language model,
\* else the model's text, and the snippets when that text is blank
AnswerReturn(chat) ==
    /\ UNCHANGED <<loopVars, ragVars, graphVars, queryVars, orchVars>>
    /\ w_pc = "answer"
    /\ LET context == Take(w_retrieved, w_args.k)
       IN  IF ~w_settings.llm_enabled
           THEN /\ chat = "blank"
                /\ w_out' = Snippets(w_used, TRUE, context)
                /\ w_pc' = "done"
           ELSE IF chat = "raise"
           THEN w_pc' = "raised" /\ UNCHANGED w_out
           ELSE /\ w_out' = IF chat = "text" THEN ChatText
                            ELSE Snippets(w_used, FALSE, context)
                /\ w_pc' = "done"
    /\ UNCHANGED <<w_settings, w_emb, w_args, w_retrieved, w_used, w_log>>

----------------------------------------------------------------------------
(* tools/rag_orchestrator.py query *)

\* what vector_rag.query does with a query: it raises (the import, the
\* collection, the embedding), or it returns its items
VectorOutcomes ==
    { [ok |-> FALSE, error |-> "chromadb", items |-> <<>>],
      [ok |-> TRUE, error |-> "", items |-> <<>>],
      [ok |-> TRUE, error |-> "", items |-> <<"doc1", "doc2">>] }

\* an engine error that is not kept
ErrorObsLost(e) == NoObs

\* lines 24 and 32: {"error": str(e)}
ErrorObs(e) == [error |-> e]

\* the pieces and relation names of the graphs of these calls, in the
\* order of Python's string comparison; no piece begins another, so texts
\* compare as their sequences of pieces do
PieceOrder ==
    << " ", "BENCH", "Bench", "Body", "Chest", "Press", "TARGETS", "Upper",
       "part_of", "related_to", "requires", "targets" >>
PieceRank(w) == CHOOSE i \in 1..Len(PieceOrder) : PieceOrder[i] = w

\* a < b for two texts
RECURSIVE TextLess(_, _)
TextLess(a, b) ==
    IF b = <<>> THEN FALSE
    ELSE IF a = <<>> THEN TRUE
    ELSE IF Head(a) = Head(b) THEN TextLess(Tail(a), Tail(b))
    ELSE PieceRank(Head(a)) < PieceRank(Head(b))

\* a < b for two tuples of texts
RECURSIVE TupleLess(_, _)
TupleLess(a, b) ==
    IF a = <<>> \/ b = <<>> THEN FALSE
    ELSE IF Head(a) = Head(b) THEN TupleLess(Tail(a), Tail(b))
    ELSE TextLess(Head(a), Head(b))

\* sorted(S) for a set of tuples of texts
RECURSIVE Sorted(_)
Sorted(S) ==
    IF S = {} THEN <<>>
    ELSE LET least == CHOOSE x \in S : \A y \in S \ {x} : TupleLess(x, y)
         IN  <<least>> \o Sorted(S \ {least})

\* obs.get(key, []) or [] of an observation
ObsList(obs, key) == IF key \in DOMAIN obs THEN obs[key] ELSE <<>>

\* lines 35-58: the merged view of the two observations
Merged(vector_obs, graph_obs) ==
    LET NodesOf(origin, obs) ==
            IF obs = NoObs THEN {}
            ELSE {<<origin, n>> : n \in Range(ObsList(obs, "matched_nodes"))}
        EdgesOf(origin, obs) ==
            IF obs = NoObs THEN {}
            ELSE {<<origin, e.source, <<e.relation>>, e.target>> :
                      e \in Range(ObsList(obs, "edges"))}
        nodes == Sorted(NodesOf(<<"vector">>, vector_obs)
                            \cup NodesOf(<<"graph">>, graph_obs))
        edges == Sorted(EdgesOf(<<"vector">>, vector_obs)
                            \cup EdgesOf(<<"graph">>, graph_obs))
    IN  [matched_nodes |->
             [i \in 1..Len(nodes) |->
                 [origin |-> nodes[i][1][1], node |-> nodes[i][2]]],
         edges |->
             [i \in 1..Len(edges) |->
                 [origin |-> edges[i][1][1], source |-> edges[i][2],
                  relation |-> edges[i][3][1], target |-> edges[i][4]]],
         vector |-> vector_obs,
         graph |-> graph_obs]

\* after the vector branch: the graph branch, or the merge
AfterVector(args) == IF args.run_graph THEN "graph" ELSE "merge"

\* query(query_text, run_vector, run_graph), lines 13-18
OrchCall(run_vector, run_graph) ==
    /\ UNCHANGED <<loopVars, answerVars, ragVars, graphVars, queryVars>>
    /\ o_pc = "idle"
    /\ q_pc = "idle"
    /\ o_args' = [run_vector |-> run_vector, run_graph |-> run_graph]
    /\ o_vector' = NoObs
    /\ o_graph' = NoObs
    /\ o_out' = NoOutput
    /\ o_pc' = IF run_vector THEN "vector"
               ELSE AfterVector([run_vector |-> run_vector,
                                 run_graph |-> run_graph])

\* lines 19-24: vector_rag.query returns, or raises into the handler
OrchVector(outcome) ==
    /\ UNCHANGED <<loopVars, answerVars, ragVars, graphVars>>
    /\ o_pc = "vector"
    /\ o_vector' = IF outcome.ok
                   THEN [type |-> "vector_rag", items |-> outcome.items]
                   ELSE ErrorObs(outcome.error)
    /\ q_log' = Append(q_log, [engine |-> "vector", ok |-> outcome.ok])
    /\ o_pc' = AfterVector(o_args)
    /\ UNCHANGED <<q_env, q_broken, q_pc, q_err, q_out, o_args, o_graph, o_out>>

\* lines 27-30: graph_rag.query is called; or its import raises
OrchGraph(imported) ==
    /\ UNCHANGED <<loopVars, answerVars, ragVars, graphVars>>
    /\ o_pc = "graph"
    /\ IF imported
       THEN /\ q_pc' = "begin"
            /\ o_pc' = "in graph"
            /\ UNCHANGED <<o_graph, q_log>>
       ELSE /\ o_graph' = ErrorObs("networkx")
            /\ q_log' = Append(q_log, [engine |-> "graph", ok |-> FALSE])
            /\ o_pc' = "merge"
            /\ UNCHANGED q_pc
    /\ UNCHANGED <<q_env, q_broken, q_err, q_out, o_args, o_vector, o_out>>

\* lines 30-32: graph_rag.query returns, or raises into the handler
OrchGraphEnds ==
    /\ UNCHANGED <<loopVars, answerVars, ragVars, graphVars>>
    /\ o_pc = "in graph"
    /\ q_pc \in {"done", "raised"}
    /\ o_graph' = IF q_pc = "done" THEN q_out ELSE ErrorObs(q_err)
    /\ q_pc' = "idle"
    /\ o_pc' = "merge"
    /\ UNCHANGED <<q_env, q_broken, q_err, q_log, q_out, o_args, o_vector, o_out>>

\* lines 34-61: the merged summary, and the return
OrchMerge ==
    /\ UNCHANGED <<loopVars, answerVars, ragVars, graphVars, queryVars>>
    /\ o_pc = "merge"
    /\ o_out' = [type |-> "rag_orchestrator", query |-> g_query,
                 merged |-> Merged(o_vector, o_graph)]
    /\ o_pc' = "done"
    /\ UNCHANGED <<o_args, o_vector, o_graph>>

----------------------------------------------------------------------------
(* The session: one agent object, its runs one after another *)

\* the queries put to AgentFull
FullQueries == {PlainQuery, <<"ile", " ", "c'wicze", "n'">>}

\* the turns of an earlier conversation of the session, oldest first
RECURSIVE Earlier(_)
Earlier(n) ==
    IF n = 0 THEN <<>>
    ELSE Append(Earlier(n - 1), << <<"earlier", ToString(n)>>, "answer" >>)

\* Memory at the start: new, or full after eight or more earlier turns
InitialTurns == {<<>>, Earlier(MemoryKeep)}

\* AGENT_MAX_STEPS: unset, or a natural number
EnvValues == {NoInt} \cup {<<n>> : n \in 0..MaxEnvSteps}
\* the max_steps argument of AgentFull: None, or a natural number
ArgValues == {NoInt} \cup {<<n>> : n \in 0..MaxArgSteps}

SessionInit ==
    /\ env_steps \in EnvValues
    /\ kind = "none"
    /\ turns \in InitialTurns
    /\ added = turns
    /\ m_text = NoAsText
    /\ a_pc = "idle"
    /\ a_max_steps = 0
    /\ a_query = <<>>
    /\ a_forced = None
    /\ a_intent = <<>>
    /\ a_tool = ""
    /\ a_tool_input = <<>>
    /\ a_step = 0
    /\ a_trace = <<>>
    /\ a_sources = <<>>
    /\ a_last_obs = EmptyObservation
    /\ a_answer = None
    /\ a_hist = EmptyHist
    /\ f_pc = "idle"
    /\ f_arg = NoInt
    /\ f_max_steps = 0
    /\ f_query = <<>>
    /\ f_step = 0
    /\ f_tool = ""
    /\ f_tool_input = ""
    /\ f_intent = ""
    /\ f_last_obs = EmptyObservation
    /\ f_trace = EmptyFullTrace
    /\ f_answer = NoText
    /\ f_hist = EmptyFullHist

Init == SessionInit /\ RagIdle /\ GraphIdle /\ CallIdle

Next ==
    \/ AgentNew
    \/ \E q \in Queries : AgentStart(q)
    \/ AgentRoute
    \/ AgentAct
    \/ AgentReflect
    \/ AgentSynth
    \/ AgentLlmRaises
    \/ AgentToolRaises
    \/ \E m \in ArgValues : AgentFullNew(m)
    \/ \E q \in FullQueries : FullStart(q)
    \/ FullPlan
    \/ FullAct
    \/ FullSynth
    \/ FullLlmRaises
    \/ FullToolRaises

Spec == Init /\ [][Next]_vars

----------------------------------------------------------------------------
(* Memory on its own: any sequence of Memory.add calls on a new Memory *)

\* the questions and answers handed to Memory.add
MemUsers == {PlainQuery, <<"ile", " ", "c'wicze", "n'">>}
MemAssistants == {"answer"}

MemInit ==
    /\ Init
    /\ env_steps = NoInt
    /\ turns = <<>>

\* Memory.add(user, assistant)
MemAdd(user, assistant) ==
    /\ Len(added) < MaxAdds
    /\ turns' = MemoryAdd(turns, user, assistant)
    /\ added' = Append(added, <<user, assistant>>)
    /\ UNCHANGED <<m_text, sessVars, agentVars, fullVars, indexVars>>

\* Memory.as_text()
MemAsText ==
    /\ m_text' = AsTextCall(turns, Len(added))
    /\ UNCHANGED <<turns, added, sessVars, agentVars, fullVars, indexVars>>

MemNext ==
    \/ \E u \in MemUsers, a \in MemAssistants : MemAdd(u, a)
    \/ MemAsText

MemSpec == MemInit /\ [][MemNext]_vars

----------------------------------------------------------------------------
(* The TF-IDF store on its own: builds, a load and retrieve calls *)

RagInit ==
    /\ SessionInit
    /\ env_steps = NoInt
    /\ turns = <<>>
    /\ GraphIdle
    /\ CallIdle
    /\ \E docs \in DocLists(MaxDocs), query \in QueryTexts, k \in 0..MaxK :
           RagStart(docs, query, k)

RagNext ==
    \/ \E docs \in {r_docs, OtherDocs} : RagBuild(docs)
    \/ RagLoad
    \/ \E s \in Stores : RagRetrieve(s)

RagSpec == RagInit /\ [][RagNext]_vars

----------------------------------------------------------------------------
(* One build at a time, statement by statement, next to the readers of the *)
(* store and of its snapshot; a build may be interrupted after any         *)
(* statement (an exception of the file system, a signal, the process end). *)

\* the building store
Building == r_store["built"]

\* build(docs), line 43: self.docs is assigned
BuildBegin(docs) ==
    /\ UNCHANGED <<loopVars, graphVars, callVars>>
    /\ b_pc = "idle"
    /\ Len(r_builds) < MaxBuilds
    /\ docs = OtherDocs => r_builds = <<>>
    /\ r_store' = [r_store EXCEPT !["built"] = BuildDocs(@, docs)]
    /\ r_builds' = Append(r_builds, docs)
    /\ b_docs' = docs
    /\ b_pc' = "df"
    /\ r_synced' = FALSE
    /\ UNCHANGED <<r_docs, r_query, r_k, r_file, r_out>>

\* build(), lines 44-54: self.df is assigned
BuildStepDf ==
    /\ UNCHANGED <<loopVars, graphVars, callVars>>
    /\ b_pc = "df"
    /\ r_store' = [r_store EXCEPT !["built"] = BuildDf(@)]
    /\ b_pc' = "reset"
    /\ UNCHANGED <<r_docs, r_query, r_k, r_file, r_builds, r_synced, r_out, b_docs>>

\* build(), lines 55-56: self.doc_vecs and self.norms are emptied
BuildStepReset ==
    /\ UNCHANGED <<loopVars, graphVars, callVars>>
    /\ b_pc = "reset"
    /\ r_store' = [r_store EXCEPT !["built"] = BuildReset(@)]
    /\ b_pc' = "vec"
    /\ UNCHANGED <<r_docs, r_query, r_k, r_file, r_builds, r_synced, r_out, b_docs>>

\* build(), lines 58-64: the next vector is appended, or the loop ends
BuildStepVec ==
    /\ UNCHANGED <<loopVars, graphVars, callVars>>
    /\ b_pc = "vec"
    /\ IF Len(Building.doc_vecs) < Len(Building.docs)
       THEN /\ r_store' = [r_store EXCEPT !["built"] =
                               BuildAppendVec(@, Len(@.doc_vecs) + 1)]
            /\ b_pc' = "norm"
       ELSE /\ b_pc' = "open"
            /\ UNCHANGED r_store
    /\ UNCHANGED <<r_docs, r_query, r_k, r_file, r_builds, r_synced, r_out, b_docs>>

\* build(), line 65: the norm of that vector is appended
BuildStepNorm ==
    /\ UNCHANGED <<loopVars, graphVars, callVars>>
    /\ b_pc = "norm"
    /\ r_store' = [r_store EXCEPT !["built"] = BuildAppendNorm(@)]
    /\ b_pc' = "vec"
    /\ UNCHANGED <<r_docs, r_query, r_k, r_file, r_builds, r_synced, r_out, b_docs>>

\* build(), lines 67-68: open("wb") creates the file or empties it
BuildStepOpen ==
    /\ UNCHANGED <<loopVars, graphVars, callVars>>
    /\ b_pc = "open"
    /\ r_file' = CutFile
    /\ b_pc' = "dump"
    /\ UNCHANGED <<r_docs, r_query, r_k, r_store, r_builds, r_synced, r_out, b_docs>>

\* build(), lines 69-73: pickle.dump writes the four fields, the file closes
BuildStepDump ==
    /\ UNCHANGED <<loopVars, graphVars, callVars>>
    /\ b_pc = "dump"
    /\ r_file' = PickleDump(Building)
    /\ b_pc' = "idle"
    /\ UNCHANGED <<r_docs, r_query, r_k, r_store, r_builds, r_synced, r_out, b_docs>>

\* build() ends early: everything stays as the last statement left it
BuildInterrupted ==
    /\ UNCHANGED <<loopVars, graphVars, callVars>>
    /\ b_pc # "idle"
    /\ b_pc' = "idle"
    /\ UNCHANGED <<r_docs, r_query, r_k, r_store, r_file, r_builds, r_synced, r_out, b_docs>>

\* a reader asks again
ReadAgain(s) ==
    /\ UNCHANGED <<loopVars, graphVars, callVars>>
    /\ r_out[s] # NoResult
    /\ r_out' = [r_out EXCEPT ![s] = NoResult]
    /\ UNCHANGED <<r_docs, r_query, r_k, r_store, r_file, r_builds, r_synced, b_pc, b_docs>>

BuildInit ==
    /\ SessionInit
    /\ env_steps = NoInt
    /\ turns = <<>>
    /\ GraphIdle
    /\ CallIdle
    /\ \E docs \in DocLists(MaxDocs) : RagStart(docs, <<"bench">>, MaxK)

BuildNext ==
    \/ \E docs \in {r_docs, OtherDocs} : BuildBegin(docs)
    \/ BuildStepDf
    \/ BuildStepReset
    \/ BuildStepVec
    \/ BuildStepNorm
    \/ BuildStepOpen
    \/ BuildStepDump
    \/ BuildInterrupted
    \/ RagLoad
    \/ \E s \in Stores : RagRetrieve(s)
    \/ \E s \in Stores : ReadAgain(s)

BuildSpec == BuildInit /\ [][BuildNext]_vars

----------------------------------------------------------------------------
(* The local graph query on its own: one load, one query *)

GraphInit ==
    /\ SessionInit
    /\ env_steps = NoInt
    /\ turns = <<>>
    /\ RagIdle
    /\ CallIdle
    /\ \E files \in GraphFiles, q \in GraphQueries, h \in 0..MaxHops,
          pick \in {"low", "high"} : GraphStart(files, q, h, pick)

GraphNext ==
    \/ \E catalog \in Catalogs : GraphIngest(catalog)
    \/ GraphLoad
    \/ GraphQuery

GraphSpec == GraphInit /\ [][GraphNext]_vars

----------------------------------------------------------------------------
(* graph_rag.query on its own: one call *)

\* the graph files and queries of these calls
QueryFiles ==
    { [json |-> NoEdges, csv |-> NoEdges],
      [json |-> EdgeFile(ScenarioEdges), csv |-> NoEdges],
      [json |-> NoEdges, csv |-> EdgeFile(DupEdges)] }
QueryQueries == { <<"bench">>, <<"Chest", " ", "squat">> }
QueryEnvs ==
    [mode : ModeValues, uri : {EnvUnset, <<"bolt://db">>},
     user : {<<"neo4j">>}, password : SecretValues]

QueryInit ==
    /\ SessionInit
    /\ env_steps = NoInt
    /\ turns = <<>>
    /\ RagIdle
    /\ AnswerIdle
    /\ OrchStart
    /\ \E files \in QueryFiles, q \in QueryQueries, pick \in {"low", "high"} :
           GraphStart(files, q, 0, pick)
    /\ \E env \in QueryEnvs, broken \in BOOLEAN : QueryStart(env, broken)

QueryNext ==
    \/ QueryCall
    \/ QueryBegin
    \/ \E service \in Neo4jServices : QueryTryNeo4j(service)
    \/ QueryLocalGraph

QuerySpec == QueryInit /\ [][QueryNext]_vars

----------------------------------------------------------------------------
(* rag_orchestrator.query on its own: one call *)

OrchEnvs ==
    [mode : {EnvUnset, <<"neo4j">>}, uri : {<<"bolt://db">>},
     user : {<<"neo4j">>}, password : {<<" ">>, <<"secret">>}]

OrchInit ==
    /\ SessionInit
    /\ env_steps = NoInt
    /\ turns = <<>>
    /\ RagIdle
    /\ AnswerIdle
    /\ OrchStart
    /\ \E files \in QueryFiles, q \in QueryQueries, pick \in {"low", "high"} :
           GraphStart(files, q, 0, pick)
    /\ \E env \in OrchEnvs, broken \in BOOLEAN : QueryStart(env, broken)

OrchNext ==
    \/ \E run_vector, run_graph \in BOOLEAN : OrchCall(run_vector, run_graph)
    \/ \E outcome \in VectorOutcomes : OrchVector(outcome)
    \/ \E imported \in BOOLEAN : OrchGraph(imported)
    \/ QueryBegin
    \/ \E service \in Neo4jServices : QueryTryNeo4j(service)
    \/ QueryLocalGraph
    \/ OrchGraphEnds
    \/ OrchMerge

OrchSpec == OrchInit /\ [][OrchNext]_vars

----------------------------------------------------------------------------
(* answer_with_rag on its own: one call over the two snapshot files *)

BenchDoc == <<"Bench", " ", "press", ".">>
SquatDoc == <<"Squat", " ", "squat", " ", "legs">>
AnswerDocs == { <<>>, <<BenchDoc>>, <<BenchDoc, SquatDoc>> }
AnswerQuestions == { <<"bench">>, <<"chest">> }
AnswerKs == {1, 5}
AnswerSettings ==
    [llm_enabled : BOOLEAN, openai_embedding_model : {None, "embed-model"}]

AnswerInit ==
    /\ SessionInit
    /\ env_steps = NoInt
    /\ turns = <<>>
    /\ GraphIdle
    /\ QueryStart(NoEnv, FALSE)
    /\ OrchStart
    /\ r_docs = <<>> /\ r_query = <<>> /\ r_k = 0
    /\ r_store = [s \in Stores |-> NewStore]
    /\ r_file \in {NoFile} \cup
                   {PickleDump(BuildIndex(NewStore, docs)) : docs \in AnswerDocs}
    /\ r_builds = <<>> /\ r_synced = FALSE
    /\ r_out = [s \in Stores |-> NoResult]
    /\ b_pc = "idle" /\ b_docs = <<>>
    /\ \E settings \in AnswerSettings,
          emb \in {NoFile} \cup {EmbeddingIndex(docs) : docs \in AnswerDocs},
          question \in AnswerQuestions, k \in AnswerKs :
           AnswerStart(settings, emb, question, k)

AnswerNext ==
    \/ AnswerBegin
    \/ \E embedded \in EmbedVecs \cup {<<>>} : AnswerEmbeddings(embedded)
    \/ AnswerTfidf
    \/ \E chat \in ChatOutcomes : AnswerReturn(chat)

AnswerSpec == AnswerInit /\ [][AnswerNext]_vars

----------------------------------------------------------------------------
(* Properties *)

\* the max_steps a session has configured: AGENT_MAX_STEPS (3 when unset)
\* for Agent; the constructor argument for AgentFull (AGENT_MAX_STEPS, 4
\* when unset, when the argument is None)
ConfiguredAgentSteps == EnvInt(env_steps, AgentDefaultSteps)
ConfiguredFullSteps ==
    IF f_arg = NoInt THEN EnvInt(env_steps, FullDefaultSteps) ELSE f_arg[1]

\* C1: in any run of Agent.run and of AgentFull.run the number of ACT
\* phases never exceeds the configured max_steps, and the step trace never
\* holds more than max_steps records.
C1_ActsWithinConfigured ==
    /\ kind = "agent" =>
         /\ a_hist.acts <= ConfiguredAgentSteps
         /\ Len(a_trace) <= ConfiguredAgentSteps
    /\ kind = "full" =>
         /\ f_hist.acts <= ConfiguredFullSteps
         /\ Len(f_trace.steps) <= ConfiguredFullSteps

\* C1, as the code has it: ACT phases and trace records are bounded by the
\* max_steps the object holds.
C1_ActsWithinHeld ==
    /\ kind = "agent" =>
         /\ a_hist.acts <= a_max_steps
         /\ Len(a_trace) <= a_max_steps
    /\ kind = "full" =>
         /\ f_hist.acts <= f_max_steps
         /\ Len(f_trace.steps) <= f_max_steps

\* parts of C2: what a run that never declared sufficiency has done when
\* it returns, and a measure of the work a run has left
C2_AgentForced ==
    (a_pc = "done" /\ a_max_steps >= 1 /\ a_hist.insufficient) =>
        /\ a_hist.acts = a_max_steps
        /\ Len(a_trace) = a_max_steps
        /\ a_hist.synth = << a_trace[a_max_steps].observation >>
        /\ a_hist.llm_calls = a_max_steps + 2
C2_FullForced ==
    (f_pc = "done" /\ f_max_steps >= 1 /\ f_hist.insufficient) =>
        /\ f_hist.acts = f_max_steps
        /\ Len(f_trace.steps) = f_max_steps
        /\ f_hist.synth = << f_trace.steps[f_max_steps].observation >>
        /\ f_trace.stopped_reason = "max_steps"
C2_NoSynthBeforeEnd ==
    /\ a_pc \in {"route", "act", "reflect", "synth"} => a_hist.synth = <<>>
    /\ f_pc \in {"plan", "act", "synth"} => f_hist.synth = <<>>
AgentRunning == a_pc \in {"route", "act", "reflect", "synth"}
FullRunning == f_pc \in {"plan", "act", "synth"}
AgentWorkLeft ==
    CASE a_pc = "route"   -> 2 * a_max_steps + 2
      [] a_pc = "act"     -> 2 * (a_max_steps - a_step) + 3
      [] a_pc = "reflect" -> 2 * (a_max_steps - a_step) + 2
      [] a_pc = "synth"   -> 1
      [] OTHER            -> 0
FullWorkLeft ==
    CASE f_pc = "plan"  -> 2 * (f_max_steps - f_step) + 3
      [] f_pc = "act"   -> 2 * (f_max_steps - f_step) + 2
      [] f_pc = "synth" -> 1
      [] OTHER          -> 0
\* C2: for max_steps >= 1, a run in which no step declares sufficiency
\* (Agent: every reflection says sufficient=false and names a next tool
\* other than "none"; AgentFull: every planner response is an object with
\* sufficient=false and a tool other than "none") returns after exactly
\* max_steps ACT phases and exactly one synthesis call, which is handed the
\* observation of the last step.  The run ends: every step of a run
\* lowers a natural-number measure of the work left, and a run that has
\* not ended can always take a step.
C2_ForcedSynthesis ==
    /\ [](C2_AgentForced /\ C2_FullForced /\ C2_NoSynthBeforeEnd)
    /\ [](AgentWorkLeft >= 0 /\ FullWorkLeft >= 0)
    /\ []((AgentRunning \/ FullRunning) => ENABLED Next)
    /\ [][AgentRunning => AgentWorkLeft' < AgentWorkLeft]_vars
    /\ [][FullRunning => FullWorkLeft' < FullWorkLeft]_vars
C2_Witness ==
    /\ f_pc = "done" /\ f_max_steps = FullDefaultSteps /\ f_hist.insufficient
    /\ f_hist.acts = FullDefaultSteps

\* C3: in Agent.run, once the reflection of step i says sufficient=true or
\* names the next tool "none", the loop has stopped: i ACT phases have run
\* and no more will, and synthesis is handed the observation of step i.
C3_StopsWhenSufficient ==
    (/\ a_hist.ref.step >= 1
     /\ a_hist.ref.sufficient = JTrue \/ a_hist.ref.next_tool = "none") =>
        /\ a_pc \in {"synth", "done", "aborted"}
        /\ a_hist.acts = a_hist.ref.step
        /\ Len(a_trace) = a_hist.ref.step
        /\ a_last_obs = a_trace[a_hist.ref.step].observation
        /\ a_pc = "done" =>
             a_hist.synth = << a_trace[a_hist.ref.step].observation >>
C3_Witness ==
    /\ a_pc = "done" /\ a_max_steps = AgentDefaultSteps
    /\ a_hist.ref.step = 1 /\ a_hist.ref.sufficient = JTrue
    /\ a_hist.acts = 1

\* C4: in Agent.run, a reflection response of step i that neither parses
\* nor parses after the first-"{"-to-last-"}" recovery counts as
\* sufficient: the loop stops after step i, the trace records the generic
\* note "OK.", and the run goes on to synthesis and returns an answer.
C4_UnparsableReflectionStops ==
    (a_hist.ref.step >= 1 /\ a_hist.ref.unparsable) =>
        /\ a_hist.ref.stop
        /\ a_hist.error # "AttributeError"
        /\ a_pc \in {"synth", "done", "aborted"}
        /\ a_hist.acts = a_hist.ref.step
        /\ Len(a_trace) = a_hist.ref.step
        /\ a_trace[a_hist.ref.step].reflection = <<"OK.">>
        /\ a_pc = "synth" => ENABLED AgentSynth
        /\ a_pc = "done" => a_answer \in Answers
C4_Witness ==
    /\ a_pc = "done" /\ a_hist.ref.unparsable /\ a_hist.ref.step = 2
    /\ a_max_steps = AgentDefaultSteps /\ a_answer \in Answers

\* C5: in AgentFull.run, a planner response that neither parses nor parses
\* after brace extraction ends the run at once: the raw text is the
\* answer, the trace carries planner_parse_error and the raw text, no tool
\* runs at that step and no synthesis call is made.
C5_UnparsablePlanIsFatal ==
    (f_hist.plan.step >= 1 /\ f_hist.plan.unparsable) =>
        /\ f_pc = "done"
        /\ f_answer = f_hist.plan.raw
        /\ f_trace.planner_parse_error
        /\ f_trace.planner_raw = f_hist.plan.raw
        /\ f_hist.acts = f_hist.plan.step - 1
        /\ Len(f_trace.steps) = f_hist.plan.step - 1
        /\ f_hist.synth = <<>>
        /\ f_hist.llm_calls = f_hist.plan.step
C5_Witness ==
    /\ f_pc = "done" /\ f_hist.plan.unparsable /\ f_hist.plan.step = 2
    /\ f_hist.plan.raw = <<"{", "F">> /\ f_answer = <<"{", "F">>

\* C6: AgentFull._call_tool on a tool name outside its set returns an
\* observation with an error marker and does not raise; the loop records
\* the step with that observation and goes on to the next planning step,
\* or to synthesis after the last step.
C6_UnknownToolIsObserved ==
    [][(f_pc = "act" /\ f_tool \notin FullTools) =>
         /\ f_pc' = IF f_step < f_max_steps THEN "plan" ELSE "synth"
         /\ Len(f_trace'.steps) = Len(f_trace.steps) + 1
         /\ f_trace'.steps[Len(f_trace'.steps)].tool = f_tool
         /\ f_trace'.steps[Len(f_trace'.steps)].observation.error
                = "Unknown tool"
         /\ f_last_obs' = f_trace'.steps[Len(f_trace'.steps)].observation
         /\ f_hist'.error = ""]_vars
C6_Witness ==
    /\ f_pc = "plan" /\ f_step = 2
    /\ f_trace.steps[1].tool = "unknown_tool"
    /\ f_trace.steps[1].observation.error = "Unknown tool"

\* the tool of step 1 of Agent.run, once it is chosen
StepOneTool ==
    IF Len(a_trace) >= 1 THEN a_trace[1].tool ELSE a_tool
StepOneChosen == a_pc \in {"act", "reflect", "synth", "done"} /\ a_step >= 1

\* the tool of the current step of Agent.run was named by the reflection
\* of the step before
NamedByReflection ==
    /\ a_pc \in {"act", "reflect"} /\ a_step >= 2
    /\ a_hist.ref.step = a_step - 1

\* every tool recorded or about to be executed is an enumerated name
ToolsEnumerated ==
    /\ \A i \in 1..Len(a_trace) : a_trace[i].tool \in ToolName
    /\ a_pc \in {"act", "reflect"} => a_tool \in ToolName

\* C7 as stated: in Agent.run every executed and recorded tool is an
\* enumerated name; a router tool or a reflection next_tool outside the
\* set is replaced by vector_rag before it is executed.
C7_Original ==
    /\ ToolsEnumerated
    /\ (StepOneChosen /\ a_hist.route.tool \notin ToolName) =>
            StepOneTool = "vector_rag"
    /\ (NamedByReflection /\ a_hist.ref.next_tool \notin ToolName) =>
            a_tool = "vector_rag"

\* C7, amended: as above, except that at step 1 under a keyword override
\* the forced tool is executed whatever the router named.
C7_CoercedToDefault ==
    /\ ToolsEnumerated
    /\ (StepOneChosen /\ a_hist.route.tool \notin ToolName) =>
            StepOneTool = IF a_forced # None THEN a_forced ELSE "vector_rag"
    /\ (NamedByReflection /\ a_hist.ref.next_tool \notin ToolName) =>
            a_tool = "vector_rag"
C7_Witness ==
    /\ a_pc = "done" /\ Len(a_trace) = 2
    /\ a_forced = None /\ a_hist.route.tool = "unknown_tool"
    /\ a_trace[1].tool = "vector_rag"
    /\ a_trace[2].tool = "vector_rag"

\* C8: after any sequence of Memory.add calls Memory holds at most 8
\* turns: the most recently added ones (all of them when fewer than 8 were
\* added), in insertion order, the oldest dropped first.
C8_MemoryKeepsNewest ==
    /\ Len(turns) <= MemoryKeep
    /\ Len(turns) = IF Len(added) < MemoryKeep THEN Len(added) ELSE MemoryKeep
    /\ \A i \in 1..Len(turns) :
          turns[i] = added[Len(added) - Len(turns) + i]
C8_Witness ==
    /\ Len(added) = MemoryKeep + 2 /\ Len(turns) = MemoryKeep
    /\ turns[1] = added[3] /\ added[1] # added[3]

\* C9: Agent.run changes Memory once per completed run, appending (user
\* query, final answer) after synthesis, and at no earlier point: a run in
\* progress, and a run ended by an exception, leave Memory as it was.
C9_MemoryOncePerRun ==
    /\ a_pc \in {"route", "act", "reflect", "synth", "aborted"} =>
         /\ turns = a_hist.mem0
         /\ added = a_hist.mem0
    /\ a_pc = "done" =>
         /\ added = Append(a_hist.mem0, <<a_query, a_answer>>)
         /\ Len(turns) >= 1
         /\ turns[Len(turns)] = <<a_query, a_answer>>
         /\ \A i \in 1..(Len(turns) - 1) :
               turns[i] = a_hist.mem0[Len(a_hist.mem0) - (Len(turns) - 1) + i]
         /\ Len(turns) = IF Len(a_hist.mem0) < MemoryKeep
                         THEN Len(a_hist.mem0) + 1 ELSE MemoryKeep
C9_Witness ==
    /\ a_pc = "done" /\ Len(a_hist.mem0) = MemoryKeep
    /\ turns # a_hist.mem0 /\ Len(a_trace) = 2

\* a keyword of the list is a contiguous part of the query text as given
TextHasWhatIf == \E k \in WhatIfKeys : Contains(a_query, k)
TextHasCount == \E k \in CountKeys : Contains(a_query, k)

\* C10: in Agent.run a query whose text contains what-if vocabulary runs
\* what_if at step 1, and otherwise a query whose text contains counting
\* vocabulary runs analytics at step 1, whatever tool the router names.
C10_TextOverride ==
    StepOneChosen =>
        /\ TextHasWhatIf => StepOneTool = "what_if"
        /\ (~TextHasWhatIf /\ TextHasCount) => StepOneTool = "analytics"

\* C10, as the code has it: the keywords are looked up in the query after
\* strip() and lower(), and the tool they force is the tool of step 1.
C10_KeywordOverride ==
    StepOneChosen =>
        /\ HasWhatIf(a_query) => StepOneTool = "what_if"
        /\ (~HasWhatIf(a_query) /\ HasCount(a_query)) => StepOneTool = "analytics"
C10_Witness ==
    /\ a_pc = "reflect" /\ a_step = 1
    /\ HasWhatIf(a_query) /\ HasCount(a_query)
    /\ a_hist.route.tool = "graph_rag" /\ a_last_obs.tool = "what_if"

----------------------------------------------------------------------------
(* Properties of the TF-IDF store *)

\* the tokens of a text
TokensOf(text) == {Tokenize(text)[i] : i \in 1..Len(Tokenize(text))}
\* the two texts have a token in common
SharesToken(a, b) == TokensOf(a) \cap TokensOf(b) # {}
\* retrieve() on store s has returned
Returned(s) == r_out[s].raised = ""
\* the newest build
LastBuilt == r_builds[Len(r_builds)]

\* C11: retrieve(q, k) on a built index returns at most k documents, each
\* with a similarity to q above 0, in descending order of similarity.
C11_AtMostKPositiveDescending ==
    \A s \in Stores : Returned(s) =>
        LET out == r_out[s]
            q_vec == QueryVec(r_store[s], r_query)
        IN  /\ Len(out.docs) <= r_k
            /\ \A j \in 1..Len(out.docs) :
                 /\ out.hits[j].i \in 1..Len(r_store[s].docs)
                 /\ out.docs[j] = r_store[s].docs[out.hits[j].i]
                 /\ out.hits[j] = Scored(r_store[s], q_vec, out.hits[j].i)
                 /\ ScorePositive(out.hits[j])
            /\ \A j \in 1..(Len(out.docs) - 1) :
                 ~ScoreLess(out.hits[j], out.hits[j + 1])
C11_Witness ==
    /\ Returned("built") /\ r_k = 1 /\ Len(r_out["built"].docs) = 1
    /\ Len(r_store["built"].docs) = 2
    /\ \E i \in 1..2 :
         LET sc == Scored(r_store["built"], QueryVec(r_store["built"], r_query), i)
         IN  ScorePositive(sc) /\ ScoreLess(sc, r_out["built"].hits[1])

\* C12: of two documents with the same similarity, retrieve() ranks the
\* one indexed earlier first, and keeps it when the cut at k falls between
\* the two.
C12_TiesByInsertionOrder ==
    \A s \in Stores : Returned(s) =>
        LET out == r_out[s]
            q_vec == QueryVec(r_store[s], r_query)
        IN  /\ \A j \in 1..(Len(out.hits) - 1) :
                 ScoreEqual(out.hits[j], out.hits[j + 1])
                     => out.hits[j].i < out.hits[j + 1].i
            /\ \A j \in 1..Len(out.hits), i \in 1..Len(r_store[s].doc_vecs) :
                 (/\ \A h \in 1..Len(out.hits) : out.hits[h].i # i
                  /\ ScoreEqual(out.hits[j], Scored(r_store[s], q_vec, i)))
                     => out.hits[j].i < i

\* C12, as the code has it: of two documents with the same similarity the
\* one indexed later is ranked first and survives the cut.
C12_TiesByLatest ==
    \A s \in Stores : Returned(s) =>
        LET out == r_out[s]
            q_vec == QueryVec(r_store[s], r_query)
        IN  /\ \A j \in 1..(Len(out.hits) - 1) :
                 ScoreEqual(out.hits[j], out.hits[j + 1])
                     => out.hits[j].i > out.hits[j + 1].i
            /\ \A j \in 1..Len(out.hits), i \in 1..Len(r_store[s].doc_vecs) :
                 (/\ \A h \in 1..Len(out.hits) : out.hits[h].i # i
                  /\ ScoreEqual(out.hits[j], Scored(r_store[s], q_vec, i)))
                     => out.hits[j].i > i
C12_Witness ==
    /\ Returned("built") /\ r_k = 1
    /\ r_store["built"].docs = << <<"Bench", " ", "press", ".">>, <<"press", " ", "BENCH">> >>
    /\ r_out["built"].docs = << <<"press", " ", "BENCH">> >>

\* C13: on a built index retrieve() returns only documents that share a
\* token with the query, and returns nothing, without raising, when no
\* indexed document shares one: also for a query without tokens and for an
\* index built from an empty corpus.
C13_OnlySharedTokens ==
    \A s \in Stores : (r_out[s] # NoResult /\ r_builds # <<>>) =>
        /\ Returned(s)
        /\ \A j \in 1..Len(r_out[s].docs) : SharesToken(r_out[s].docs[j], r_query)
        /\ (\A i \in 1..Len(r_store[s].docs) :
                ~SharesToken(r_store[s].docs[i], r_query))
               => r_out[s].docs = <<>>
C13_Witness ==
    /\ r_builds # <<>> /\ StripDocs(LastBuilt) = <<>>
    /\ r_file.kind = "pickle" /\ r_file.obj["docs"] = <<>>
    /\ Returned("built") /\ r_out["built"].docs = <<>>
    /\ TokensOf(r_query) # {}

\* C14: missing index or graph data is never fatal: without a snapshot
\* file retrieve() returns an empty result instead of raising.
C14_MissingSnapshotIsEmpty ==
    \A s \in Stores : (r_out[s] # NoResult /\ r_file.kind = "absent") =>
        Returned(s) /\ r_out[s].docs = <<>>

\* C15: a fresh store that has loaded the snapshot of a build holds the
\* index of the store that built it, field for field, and returns for the
\* query and k the result list of that store.
C15_SnapshotRoundTrip ==
    r_synced =>
        /\ (r_out["fresh"] # NoResult /\ r_out["built"] # NoResult)
               => r_out["fresh"] = r_out["built"]
        /\ r_store["fresh"].doc_vecs = r_file.obj["doc_vecs"]
        /\ r_store["fresh"].norms = r_file.obj["norms"]
        /\ r_store["fresh"].docs = r_file.obj["docs"]
        /\ r_store["fresh"].df = r_file.obj["df"]
        /\ r_file = PickleDump(r_store["built"])
C15_Witness ==
    /\ r_synced /\ Returned("fresh") /\ Returned("built")
    /\ Len(r_out["fresh"].docs) = 2 /\ r_out["fresh"] = r_out["built"]

\* C16: after any builds on a store, the index and the snapshot are those
\* of one build of the newest document set on a new store, and retrieve()
\* gives that build's result; nothing of an earlier build is left.
C16_BuildIdempotent ==
    r_builds # <<>> =>
        LET once == BuildIndex(NewStore, LastBuilt)
        IN  /\ r_file = PickleDump(once)
            /\ r_store["built"] = once
            /\ r_out["built"] # NoResult
                   => r_out["built"] = Retrieve(once, r_query, r_k)
C16_Witness ==
    /\ Len(r_builds) = 2 /\ r_builds[1] = OtherDocs /\ r_builds[2] # OtherDocs
    /\ Returned("built") /\ r_out["built"].docs # <<>>
C16_WitnessTwice ==
    /\ Len(r_builds) = 2 /\ r_builds[1] = r_builds[2]
    /\ Returned("built") /\ r_out["built"].docs # <<>>

\* the df, vectors and norms of an index are those of its docs
Derived(ix) ==
    /\ ix.df = Df(ix.docs)
    /\ Len(ix.doc_vecs) = Len(ix.docs)
    /\ Len(ix.norms) = Len(ix.docs)
    /\ \A i \in 1..Len(ix.docs) :
         /\ ix.doc_vecs[i] = DocVec(ix.docs[i], Len(ix.docs), ix.df)
         /\ ix.norms[i] = Norm(ix.doc_vecs[i])

\* C17: at every state, also those inside a build and after a build that
\* was interrupted, the fields of every store and the snapshot file hold
\* an index derived from exactly its docs; no part-written snapshot exists.
C17_IndexAlwaysDerived ==
    /\ \A s \in Stores : Derived(r_store[s])
    /\ r_file.kind # "cut"
    /\ r_file.kind = "pickle" => Derived(r_file.obj)

\* C17, as the code has it: the index is derived from its docs when no
\* build is under way and none was interrupted; a store that only loads
\* whole snapshots holds a derived index.
C17_DerivedWhenQuiet ==
    /\ (b_pc = "idle" /\ r_file.kind # "cut"
            /\ (r_builds # <<>> => r_file = PickleDump(Building)))
           => Derived(Building)
    /\ r_file.kind = "pickle" => Derived(r_file.obj)
    /\ Derived(r_store["fresh"])
C17_Witness ==
    /\ b_pc = "idle" /\ Len(r_builds) = 2 /\ r_file = PickleDump(Building)
    /\ Len(Building.docs) = 2 /\ r_store["fresh"] = Building

----------------------------------------------------------------------------
(* Properties of the local graph query *)

\* _query_local has returned
Queried == g_pc = "done"

\* the nodes within k edges of the nodes of S, in the undirected view
RECURSIVE Ball(_, _, _)
Ball(g, S, k) ==
    IF k = 0 THEN S
    ELSE Ball(g, S \cup UNION {Neighbours(g, n) : n \in S}, k - 1)

\* the number of edges of the evidence set that leave node n
EvidenceOf(n) ==
    Cardinality({i \in 1..Len(g_out.edges) : g_out.edges[i].source = n})

\* C14, the graph half: without graph.json and edges.csv the local graph
\* query returns no matched nodes, no edges and no paths.
C14_MissingGraphIsEmpty ==
    (Queried /\ ~g_files.json.exists /\ ~g_files.csv.exists) =>
        /\ g_out.matched_nodes = <<>>
        /\ g_out.edges = <<>>
        /\ g_out.paths = <<>>

\* C18: the local graph query returns at most 5 matched nodes, the first
\* five nodes in iteration order whose lower-cased name contains a query
\* token longer than 2 characters, and at most 5 paths.
C18_FirstFiveMatches ==
    Queried =>
        LET tokens == QueryTokens(g_query)
            Named(n) == \E i \in 1..Len(tokens) :
                            CharLen(tokens[i]) > 2 /\ Contains(Lower(n), tokens[i])
            named == SelectSeq(GraphNodes(g_graph), Named)
        IN  /\ Len(g_out.matched_nodes) <= 5
            /\ g_out.matched_nodes = SubSeq(named, 1, Len(g_out.matched_nodes))
            /\ Len(named) >= 5 => Len(g_out.matched_nodes) = 5
            /\ Len(named) < 5 => g_out.matched_nodes = named
            /\ Len(g_out.paths) <= 5
C18_Witness ==
    /\ Queried /\ Len(g_out.matched_nodes) = 5 /\ Len(g_out.paths) = 5
    /\ Len(MatchedAll(g_graph, QueryTokens(g_query))) = 7
    /\ g_out.matched_nodes[5] = Bench(5)

\* C19: every path the local graph query returns has 2 to max_hops + 1
\* nodes, starts at a matched node, ends at another node, and is a
\* shortest path between its ends in the undirected view of the graph.
C19_PathsShortWithinHops ==
    Queried => \A j \in 1..Len(g_out.paths) :
        LET p == g_out.paths[j]
        IN  /\ 2 <= Len(p) /\ Len(p) <= g_hops + 1
            /\ p[1] \in Range(g_out.matched_nodes)
            /\ p[Len(p)] # p[1]
            /\ \A i \in 1..(Len(p) - 1) : p[i + 1] \in Neighbours(g_graph, p[i])
            /\ p[Len(p)] \notin Ball(g_graph, {p[1]}, Len(p) - 2)
C19_Witness ==
    /\ Queried /\ g_hops = 2 /\ g_out.matched_nodes = <<Bench(1)>>
    /\ \E j \in 1..Len(g_out.paths) : g_out.paths[j] = <<Bench(1), Leg(1), Leg(2)>>
    /\ Leg(3) \in Ball(g_graph, {Bench(1)}, 3)
    /\ \A j \in 1..Len(g_out.paths) : g_out.paths[j][Len(g_out.paths[j])] # Leg(3)

\* C20: the evidence set of the local graph query holds at most 10 edges
\* out of each matched node and at most 20 edges in all, also for graphs
\* with parallel edges between two nodes.
C20_EvidenceCaps ==
    Queried =>
        /\ \A i \in 1..Len(g_out.matched_nodes) :
               EvidenceOf(g_out.matched_nodes[i]) <= 10
        /\ Len(g_out.edges) <= 20

\* C20, as the code has it: at most 20 edges in all, each an edge of the
\* graph out of a matched node, to at most 10 successors per matched node.
C20_SuccessorCaps ==
    Queried =>
        /\ Len(g_out.edges) <= 20
        /\ \A i \in 1..Len(g_out.edges) :
               /\ g_out.edges[i].source \in Range(g_out.matched_nodes)
               /\ g_out.edges[i] \in Range(g_graph)
        /\ \A i \in 1..Len(g_out.matched_nodes) :
               Cardinality({g_out.edges[e].target : e \in
                   {x \in 1..Len(g_out.edges) :
                       g_out.edges[x].source = g_out.matched_nodes[i]}}) <= 10
C20_Witness ==
    /\ Queried /\ Len(g_out.edges) = 20
    /\ EvidenceOf(Bench(1)) = 11 /\ EvidenceOf(Bench(2)) = 9

\* the graph holds two edges of one normalized (source, relation, target)
\* key
RepeatsKey(g) ==
    \E i, j \in 1..Len(g) : i < j /\ EdgeKey(g[i]) = EdgeKey(g[j])

\* C21: the graph loaded from graph.json or from edges.csv holds no two
\* edges of one normalized (source, relation, target) key.
C21_NoRepeatedKey == g_pc # "start" => ~RepeatsKey(g_graph)

\* C21, as the code has it: graph.json as ingest_edges_to_json writes it
\* holds no two edges of one key; of the rows of one key it holds the
\* first, and it holds every self-loop and every relation between two
\* nodes that the rows and the catalog name.
C21_IngestCollapses ==
    [][\A catalog \in Catalogs :
          (g_pc = "start"
             /\ g_files'.json = EdgeFile(IngestEdgesToJson(g_files, catalog)))
          => LET out == g_files'.json.edges
                 rows == IF g_files.csv.exists THEN g_files.csv.edges ELSE <<>>
                 HasEnds(e) == e.source # <<>> /\ e.target # <<>>
                 all == SelectSeq(rows, HasEnds)
                            \o GenerateEdgesFromCatalog(catalog)
             IN  /\ ~RepeatsKey(out)
                 /\ \A i \in 1..Len(all) :
                        LET first == CHOOSE m \in 1..i :
                                /\ EdgeKey(all[m]) = EdgeKey(all[i])
                                /\ \A j \in 1..(m - 1) :
                                       EdgeKey(all[j]) # EdgeKey(all[i])
                        IN  \E k \in 1..Len(out) :
                                /\ out[k].source = all[first].source
                                /\ out[k].target = all[first].target
                                /\ out[k].relation =
                                       GetDefault(all[first], "relation",
                                                  "related_to")
                 /\ \A k \in 1..Len(out) :
                        \E i \in 1..Len(all) : EdgeKey(all[i]) = EdgeKey(out[k])
      ]_vars
C21_Witness ==
    /\ g_pc = "loaded"
    /\ g_files.csv.exists /\ g_files.csv.edges = DupEdges
    /\ g_files.json.exists
    /\ Len(g_graph) = 4
    /\ \E i \in 1..Len(g_graph) : g_graph[i] = Edge(ChestNode, ChestNode, "targets")
    /\ \E i \in 1..Len(g_graph) : g_graph[i] = Edge(BenchPress, ChestNode, "requires")

\* the number of edges of a shortest undirected path from s to t when
\* that is at most limit, and limit + 1 otherwise
Dist(g, s, t, limit) ==
    IF \E d \in 0..limit : t \in Ball(g, {s}, d)
    THEN CHOOSE d \in 0..limit :
            /\ t \in Ball(g, {s}, d)
            /\ \A c \in 0..(d - 1) : t \notin Ball(g, {s}, c)
    ELSE limit + 1

\* the nodes a query token matches, in iteration order
Named(g, query_text) ==
    LET tokens == QueryTokens(query_text)
        Hit(n) == \E i \in 1..Len(tokens) : Contains(Lower(n), tokens[i])
    IN  SelectSeq(GraphNodes(g), Hit)

\* a path from s to t qualifies: t is another node among the first 50
\* and lies 1 to max_hops edges from s
Qualifies(g, s, t, max_hops) ==
    /\ s # t
    /\ t \in Range(Take(GraphNodes(g), 50))
    /\ Dist(g, s, t, max_hops) \in 1..max_hops

\* the qualifying paths before that from starts[i] to nodes[j], when the
\* search goes through the start nodes `starts` and, for each, the nodes
\* in iteration order
Preceding(g, starts, i, j, max_hops) ==
    Cardinality({ab \in (1..Len(starts)) \X (1..Len(GraphNodes(g))) :
        /\ ab[1] < i \/ (ab[1] = i /\ ab[2] < j)
        /\ Qualifies(g, starts[ab[1]], GraphNodes(g)[ab[2]], max_hops)})

\* the result holds a shortest path from s to t
ReturnsShortest(s, t) ==
    \E k \in 1..Len(g_out.paths) :
        LET p == g_out.paths[k]
        IN  /\ p[1] = s /\ p[Len(p)] = t
            /\ Len(p) = Dist(g_graph, s, t, g_hops) + 1
            /\ \A i \in 1..(Len(p) - 1) : p[i + 1] \in Neighbours(g_graph, p[i])

\* the search from the start nodes `starts` is complete
Complete(starts) ==
    LET nodes == GraphNodes(g_graph)
    IN  \A i \in 1..Len(starts), j \in 1..Len(nodes) :
            (/\ Qualifies(g_graph, starts[i], nodes[j], g_hops)
             /\ Preceding(g_graph, starts, i, j, g_hops) < 5)
            => ReturnsShortest(starts[i], nodes[j])

\* the scenario: A -targets-> B, B -part_of-> C, the query matches only A,
\* max_hops = 2; then matched_nodes = [A] and [A, B, C] is a path
ScenarioHolds ==
    (/\ g_graph = ScenarioEdges
     /\ Named(g_graph, g_query) = <<BenchPress>>
     /\ g_hops = 2)
    => /\ g_out.matched_nodes = <<BenchPress>>
       /\ <<BenchPress, ChestNode, UpperBody>> \in Range(g_out.paths)

\* C22: for every node s a query token matches and every other node t
\* among the first 50 at 1 to max_hops undirected edges from s, a shortest
\* path from s to t is returned when fewer than 5 qualifying paths come
\* before it in search order; the scenario gives matched_nodes = [A] and
\* the path [A, B, C].
C22_CompleteFromEveryMatch ==
    Queried => Complete(Named(g_graph, g_query)) /\ ScenarioHolds

\* C22, amended: the same for every node s of the matched-node set, the
\* first five nodes a query token matches.
C22_CompleteFromMatched ==
    Queried =>
        /\ g_out.matched_nodes = Take(Named(g_graph, g_query), 5)
        /\ Complete(g_out.matched_nodes)
        /\ ScenarioHolds
C22_Witness ==
    /\ Queried /\ g_graph = ScenarioEdges /\ g_hops = 2
    /\ g_out.matched_nodes = <<BenchPress>>
    /\ g_out.paths = << <<BenchPress, ChestNode>>,
                        <<BenchPress, ChestNode, UpperBody>> >>
\* a sixth matching node has a neighbour and no path from it is returned
C22_WitnessBeyondFive ==
    /\ Queried /\ g_hops >= 1
    /\ Len(Named(g_graph, g_query)) = 6
    /\ Qualifies(g_graph, Bench(6), Chest, g_hops)
    /\ g_out.paths = <<>>

----------------------------------------------------------------------------
(* Properties of the routing of Agent.run *)

\* one routing call, made before the first ACT phase, and no call between
\* the reflection of one step and the ACT phase of the next: at step i
\* the calls so far are the routing call and i - 1 reflections
RoutedOnce ==
    /\ a_pc = "route" => a_hist.route_calls = 0 /\ a_hist.acts = 0
    /\ a_pc \in {"act", "reflect", "synth", "done"} => a_hist.route_calls = 1
    /\ a_pc \in {"act", "reflect"} => a_hist.llm_calls = a_step
    /\ a_pc = "act" => a_hist.acts = a_step - 1
    /\ a_pc = "reflect" => a_hist.acts = a_step

\* a run that returned after n steps made n + 2 language-model calls
CallsOfRun ==
    a_pc = "done" =>
        /\ a_hist.llm_calls = Len(a_trace) + 2
        /\ a_hist.acts = Len(a_trace)
        /\ \A i \in 1..Len(a_trace) : a_trace[i].step = i

\* the tool input of a step after the first: the next_tool_input of the
\* reflection before it, or the input of the step before when that is empty
InputByReflection ==
    NamedByReflection =>
        a_tool_input =
            IF a_hist.ref.next_tool_input \notin {Absent, JNull, ""}
            THEN <<a_hist.ref.next_tool_input>>
            ELSE a_trace[a_step - 1].tool_input

\* C23: Agent.run makes the routing call once, before step 1; at every
\* step i > 1 the tool and the tool input executed are the next_tool and
\* next_tool_input of the reflection of step i - 1 (an empty
\* next_tool_input keeps the previous input), with no fresh planning call;
\* a run with n steps makes n + 2 language-model calls.
C23_NextToolExecuted ==
    /\ RoutedOnce
    /\ CallsOfRun
    /\ InputByReflection
    /\ NamedByReflection => a_tool = a_hist.ref.next_tool

\* C23, amended: as above, with a next_tool outside the enumerated tool
\* names replaced by vector_rag.
C23_NextToolCoerced ==
    /\ RoutedOnce
    /\ CallsOfRun
    /\ InputByReflection
    /\ NamedByReflection =>
            a_tool = IF a_hist.ref.next_tool \in ToolName
                     THEN a_hist.ref.next_tool ELSE "vector_rag"
C23_Witness ==
    /\ a_pc = "done" /\ Len(a_trace) = 2 /\ a_hist.llm_calls = 4
    /\ a_trace[1].tool = "graph_rag" /\ a_trace[1].tool_input = <<"bench">>
    /\ a_trace[2].tool = "matcher" /\ a_trace[2].tool_input = <<"squat">>

\* the routing response could not be parsed, also not from its first "{"
\* to its last "}", and the routing call is the latest call of the run
\* and no later call of a tool or of the language model has raised
RouteUnparsed ==
    /\ a_hist.route_calls = 1 /\ a_hist.llm_calls = 1
    /\ a_hist.route.unparsable
    /\ a_hist.error \notin {"llm", "tool"}

\* C24: when the routing response of Agent.run is unparsable even after
\* the recovery, the run is not aborted; step 1 proceeds with vector_rag
\* (with the forced tool under a keyword override) and with an empty tool
\* input.
C24_EmptyToolInput ==
    (RouteUnparsed /\ a_max_steps >= 1) =>
        /\ a_pc \in {"act", "reflect"} /\ a_step = 1
        /\ a_hist.error = ""
        /\ a_tool = IF a_forced # None THEN a_forced ELSE "vector_rag"
        /\ a_tool_input = <<>>

\* C24, as the code has it: the tool input of step 1 is then the user
\* query without its leading and trailing blanks.
C24_QueryAsToolInput ==
    (RouteUnparsed /\ a_max_steps >= 1) =>
        /\ a_pc \in {"act", "reflect"} /\ a_step = 1
        /\ a_hist.error = ""
        /\ a_tool = IF a_forced # None THEN a_forced ELSE "vector_rag"
        /\ a_tool_input = Strip(a_query)
        /\ a_intent = <<"Answer the user request.">>
C24_Witness ==
    /\ RouteUnparsed /\ a_pc = "reflect" /\ a_forced = None
    /\ a_tool = "vector_rag" /\ a_tool_input = PlainQuery
    /\ a_sources = SourcesOf("vector_rag", PlainQuery, ToolResult(1))

----------------------------------------------------------------------------
(* Properties of the sources of Agent.run *)

\* the step whose tool produced the entry: the call its items came from
StepOfEntry(e) == e.items[3][2]

\* the entry is the output of the tool of a step of the trace, tagged
\* with that tool (plan_3day: the plan built in a matcher step)
FromTrace(e) ==
    /\ StepOfEntry(e) \in 1..Len(a_trace)
    /\ LET rec == a_trace[StepOfEntry(e)]
       IN  /\ rec.tool # "none"
           /\ e.items[3] = ToolResult(rec.step)
           /\ e.items[2] = rec.tool_input
           /\ IF rec.tool = "matcher"
              THEN e.type \in {"matcher", "plan_3day"}
                   /\ e.items[1] = (IF e.type = "matcher" THEN "match" ELSE "plan")
              ELSE e.type = rec.tool /\ e.items[1] = rec.tool

\* the entries of step i among the sources
EntriesOf(i) == {k \in 1..Len(a_sources) : StepOfEntry(a_sources[k]) = i}

\* s is the beginning of t
IsPrefix(s, t) == Len(s) <= Len(t) /\ s = SubSeq(t, 1, Len(s))

\* C25: every entry of the sources Agent.run returns is the output of a
\* tool executed in a step of the run's trace, tagged with that tool; a
\* matcher step gives a matcher entry followed by a plan_3day entry, a
\* step of tool "none" gives none; the entries are in step order, and
\* during a run no entry is removed or moved.
C25_SourcesFromTrace ==
    /\ [](a_pc = "done" =>
            /\ \A k \in 1..Len(a_sources) : FromTrace(a_sources[k])
            /\ \A k \in 1..(Len(a_sources) - 1) :
                   \/ StepOfEntry(a_sources[k]) < StepOfEntry(a_sources[k + 1])
                   \/ /\ StepOfEntry(a_sources[k]) = StepOfEntry(a_sources[k + 1])
                      /\ a_sources[k].type = "matcher"
                      /\ a_sources[k + 1].type = "plan_3day"
            /\ \A i \in 1..Len(a_trace) :
                   Cardinality(EntriesOf(i)) =
                       CASE a_trace[i].tool = "matcher" -> 2
                         [] a_trace[i].tool = "none" -> 0
                         [] OTHER -> 1)
    /\ [][(a_pc \notin {"idle", "done", "aborted"})
              => IsPrefix(a_sources, a_sources')]_vars
C25_Witness ==
    /\ a_pc = "done" /\ Len(a_trace) = 2
    /\ a_trace[1].tool = "none" /\ a_trace[2].tool = "matcher"
    /\ Len(a_sources) = 2
    /\ a_sources[1].type = "matcher" /\ a_sources[2].type = "plan_3day"
    /\ StepOfEntry(a_sources[1]) = 2

----------------------------------------------------------------------------
(* Properties of graph_rag.query *)

\* GRAPH_RAG_MODE says neo4j, and NEO4J_URI, NEO4J_USER and NEO4J_PASSWORD
\* are set to something other than blanks
InNeo4jMode == q_env.mode \in {<<"neo4j">>, <<" ", "NEO4J", " ">>}
Configured ==
    \A v \in {q_env.uri, q_env.user, q_env.password} :
        v \notin {EnvUnset, <<>>, <<" ">>}

Contacted(engine) == \E i \in 1..Len(q_log) : q_log[i].engine = engine
HasWarning == "warning" \in DOMAIN q_out

\* C26: graph_rag.query in neo4j mode with Neo4j configured asks Neo4j
\* first and returns its result without a warning; when that raises it
\* asks the local graph and returns that result with mode "local" and a
\* warning that describes the failure, and the exception of Neo4j does
\* not leave the function; in local mode or without the configuration
\* Neo4j is never contacted and the result has no warning.
C26_Neo4jThenLocal ==
    /\ (InNeo4jMode /\ Configured /\ q_pc \in {"done", "raised"}) =>
           /\ q_log[1].engine = "neo4j"
           /\ q_log[1].ok =>
                  /\ q_pc = "done" /\ Len(q_log) = 1
                  /\ q_out.mode = "neo4j" /\ ~HasWarning
           /\ ~q_log[1].ok =>
                  /\ Len(q_log) = 2 /\ q_log[2].engine = "local"
                  /\ q_pc = "done" =>
                         /\ q_log[2].ok
                         /\ q_out.mode = "local" /\ HasWarning
                         /\ q_out.warning[2] = "ServiceUnavailable"
                         /\ q_out.matched_nodes = g_out.matched_nodes
                         /\ q_out.edges = g_out.edges
                         /\ q_out.paths = g_out.paths
                  /\ q_pc = "raised" => ~q_log[2].ok /\ q_err = "local graph"
    /\ ~(InNeo4jMode /\ Configured) =>
           /\ ~Contacted("neo4j")
           /\ q_pc = "done" =>
                  /\ q_log = <<[engine |-> "local", ok |-> TRUE]>>
                  /\ q_out.mode = "local" /\ ~HasWarning
                  /\ q_out = g_out
C26_Witness ==
    /\ q_pc = "done"
    /\ q_log = <<[engine |-> "neo4j", ok |-> FALSE],
                 [engine |-> "local", ok |-> TRUE]>>
    /\ q_env.mode = <<" ", "NEO4J", " ">>
    /\ q_out.mode = "local" /\ HasWarning
    /\ q_out.matched_nodes = <<BenchPress>>

----------------------------------------------------------------------------
(* Properties of rag_orchestrator.query *)

VectorEntries == {i \in 1..Len(q_log) : q_log[i].engine = "vector"}
GraphEntries == {i \in 1..Len(q_log) : q_log[i].engine # "vector"}
IsErrorObs(obs) == DOMAIN obs = {"error"}

\* C27: rag_orchestrator.query calls the vector engine first and the graph
\* engine only after that call has ended; an exception of either engine
\* becomes the observation {"error": ...} of that engine, the other
\* engine is called all the same, and the call ends with its merged
\* result instead of raising.
C27_OneAfterAnother ==
    /\ Cardinality(VectorEntries) <= 1
    /\ \A i \in VectorEntries, j \in GraphEntries : i < j
    /\ o_pc = "vector" => q_pc = "idle" /\ q_log = <<>> /\ o_graph = NoObs
    /\ (o_pc \in {"graph", "in graph", "merge", "done"} /\ o_args.run_vector) =>
           /\ o_vector # NoObs
           /\ VectorEntries = {1}
           /\ IsErrorObs(o_vector) = ~q_log[1].ok
    /\ (o_pc \in {"graph", "in graph"}) => o_graph = NoObs
    /\ (o_pc \in {"merge", "done"} /\ o_args.run_graph) =>
           /\ o_graph # NoObs
           /\ GraphEntries # {}
           /\ IsErrorObs(o_graph) = ~q_log[Len(q_log)].ok
    /\ (o_pc \in {"merge", "done"} /\ ~o_args.run_vector) =>
           o_vector = NoObs /\ VectorEntries = {}
    /\ (o_pc \in {"merge", "done"} /\ ~o_args.run_graph) =>
           o_graph = NoObs /\ GraphEntries = {}
    /\ o_pc = "done" =>
           /\ o_out.type = "rag_orchestrator"
           /\ o_out.merged.vector = o_vector
           /\ o_out.merged.graph = o_graph
C27_Witness ==
    /\ o_pc = "done"
    /\ o_args = [run_vector |-> TRUE, run_graph |-> TRUE]
    /\ q_log = <<[engine |-> "vector", ok |-> FALSE],
                 [engine |-> "neo4j", ok |-> FALSE],
                 [engine |-> "local", ok |-> TRUE]>>
    /\ o_out.merged.vector = [error |-> "chromadb"]
    /\ o_out.merged.graph.mode = "local"
    /\ Len(o_out.merged.matched_nodes) > 0
    /\ Len(o_out.merged.edges) > 1
C27_WitnessGraphRaises ==
    /\ o_pc = "done"
    /\ o_args = [run_vector |-> TRUE, run_graph |-> TRUE]
    /\ q_log[1] = [engine |-> "vector", ok |-> TRUE]
    /\ o_out.merged.vector.items = <<"doc1", "doc2">>
    /\ o_out.merged.graph = [error |-> "local graph"]

----------------------------------------------------------------------------
(* Properties of the early return of AgentFull.run *)

\* the latest planner response is an object that says sufficient=true or
\* tool "none"
PlanDeclaresEnd ==
    /\ f_hist.plan.step >= 1
    /\ ~f_hist.plan.unparsable
    /\ f_hist.plan.type = "dict"
    /\ f_hist.plan.sufficient = JTrue \/ f_hist.plan.tool = "none"

\* C28: in AgentFull.run, a parsable planner response at step s that says
\* sufficient=true or tool "none" ends the run at once with the planner's
\* final_answer: s-1 tools have run, the trace holds s-1 step records and
\* final_step = s, no tool runs at step s and there is no synthesis call;
\* at step 1 the run ends without any ACT phase.
C28_EarlyReturn ==
    PlanDeclaresEnd =>
        /\ f_pc = "done"
        /\ f_hist.error = ""
        /\ f_answer = <<"final">>
        /\ f_trace.final_answer = "final"
        /\ f_trace.final_step = f_hist.plan.step
        /\ f_trace.stopped_reason = None
        /\ ~f_trace.planner_parse_error
        /\ f_hist.acts = f_hist.plan.step - 1
        /\ Len(f_trace.steps) = f_hist.plan.step - 1
        /\ \A i \in 1..Len(f_trace.steps) : f_trace.steps[i].step = i
        /\ f_hist.synth = <<>>
        /\ f_hist.llm_calls = f_hist.plan.step
C28_Witness ==
    /\ PlanDeclaresEnd /\ f_pc = "done"
    /\ f_hist.plan.step = 3
    /\ f_hist.plan.sufficient = JTrue /\ f_hist.plan.tool = "vector_rag"
    /\ f_hist.acts = 2 /\ f_trace.final_step = 3
C28_WitnessStepOne ==
    /\ PlanDeclaresEnd /\ f_pc = "done"
    /\ f_hist.plan.step = 1
    /\ f_hist.plan.sufficient = JFalse /\ f_hist.plan.tool = "none"
    /\ f_hist.acts = 0 /\ f_trace.steps = <<>>

----------------------------------------------------------------------------
(* Properties of Memory.as_text *)

\* the turns as_text was called on are the last `stored` of the `at` added
\* so far; it shows the last `shown` of them
AsTextStored == IF m_text.at < MemoryKeep THEN m_text.at ELSE MemoryKeep
AsTextShown == IF AsTextStored < 6 THEN AsTextStored ELSE 6
LinesOfTurn(i) == << <<"User", added[i][1]>>, <<"Assistant", added[i][2]>> >>

\* C29: Memory.as_text returns the most recent min(n, 6) of the n stored
\* turns in insertion order, a User line and then an Assistant line for
\* each, and the empty string when there are no turns; with 8 turns
\* stored, the two oldest of them have no line in the text.
C29_AsTextShowsLastSix ==
    m_text.at >= 0 =>
        /\ Len(m_text.lines) = 2 * AsTextShown
        /\ \A j \in 1..AsTextShown :
              SubSeq(m_text.lines, 2 * j - 1, 2 * j)
                  = LinesOfTurn(m_text.at - AsTextShown + j)
        /\ m_text.at = 0 => m_text.lines = <<>>
        /\ AsTextStored = MemoryKeep => AsTextShown = MemoryKeep - 2
C29_Witness ==
    /\ m_text.at = MemoryKeep + 1 /\ Len(added) = MemoryKeep + 1
    /\ Len(turns) = MemoryKeep /\ Len(m_text.lines) = 12
    /\ m_text.lines[1] = <<"User", added[4][1]>>
    /\ \A i \in 1..12 : m_text.lines[i] # <<"User", added[3][1]>>
    /\ turns[1] = added[2] /\ turns[2] = added[3]
C29_WitnessEmpty == m_text.at = 0 /\ m_text.lines = <<>> /\ turns = <<>>
C29_WitnessBelowSix ==
    /\ m_text.at = 2 /\ Len(m_text.lines) = 4
    /\ m_text.lines[4] = <<"Assistant", "answer">>

----------------------------------------------------------------------------
(* Properties of answer_with_rag *)

\* the store whose documents are the snippets of the output: the last one
\* asked
SnippetStore == w_log[Len(w_log)].store
ReturnsSnippets == w_pc = "done" /\ w_out.kind = "snippets"

\* C30: answer_with_rag asks the embedding store first and the TF-IDF
\* store after it, and the label of the snippets it returns names the
\* store they come from: tfidf whenever they come from the TF-IDF store,
\* after the embedding store raised or returned nothing.
C30_LabelNamesStore ==
    /\ \A i, j \in 1..Len(w_log) :
          (w_log[i].store = "embeddings" /\ w_log[j].store = "tfidf") => i < j
    /\ ReturnsSnippets =>
          /\ w_out.context = Take(w_log[Len(w_log)].docs, w_args.k)
          /\ w_out.used = SnippetStore

\* what the code does: the label is embeddings whenever the embedding
\* store returned without raising, also when it returned nothing and the
\* snippets are those of the TF-IDF store
C30_LabelNamesFirstAnswer ==
    ReturnsSnippets =>
        w_out.used = IF w_log[1].store = "embeddings" /\ w_log[1].raised = ""
                     THEN "embeddings" ELSE "tfidf"
C30_Witness ==
    /\ ReturnsSnippets
    /\ Len(w_log) = 2
    /\ w_log[1] = [store |-> "embeddings", raised |-> "", docs |-> <<>>]
    /\ SnippetStore = "tfidf"
    /\ w_out.context = <<BenchDoc>>
    /\ w_out.used = "embeddings"

====
